---- MODULE Spec2Model ----
(***************************************************************************)
(* GOAP agent of packages/core (BaseAgent): the A* planner planActions and *)
(* the sequential executor execute, with the helpers they call; and the    *)
(* LLMService of packages/core with the response cache it reads and        *)
(* writes.  The two are separate objects and have a specification each.    *)
(*                                                                         *)
(* JavaScript values are modelled as <<type, n>> pairs so that strict      *)
(* equality (===) is plain equality of pairs: true is <<"boolean", 1>>,    *)
(* the number 1 is <<"number", 1>>, and the two differ.  Objects (world    *)
(* states, preconditions, effects, goal conditions) are sequences of       *)
(* <<key, value>> entries in insertion order, as Object.entries sees them. *)
(***************************************************************************)
EXTENDS Integers, Sequences, FiniteSets, TLC

VARIABLES
    worldState,   \* this.worldState, the live world state
    goals,        \* this.goals, the registered goals
    actions,      \* this.actions, the registered actions, in registration order
    task,         \* the argument of execute: [goal |-> name, context |-> value]
    pc,           \* position of the execute() call
    openList,     \* planActions: the frontier
    closedSet,    \* planActions: keys of the expanded states
    elapsed,      \* wall-clock time since planActions was entered (ms, saturating)
    timeout,      \* planActions: the timer set with setTimeout
    plan,         \* the ActionPlan planActions returned, or NoPlan
    error,        \* the error execute rejected with, or "none"
    index,        \* execute: position in plan.actions of the current action (1-based)
    result,       \* execute: the local variable result
    events,       \* every event emitted so far, in order
    startState,   \* history: the live world state when execute was entered
    expanded,     \* history: the states planActions expanded, in order
    invoked,      \* history: the plan positions whose behaviour was invoked, in order
    outcome       \* history: what executeAction returned for each invoked position

\* LLMService (unnamed/part_001)
VARIABLES
    providers,      \* this.providers: the providers that have a model factory
    fallbackOrder,  \* this.fallbackOrder
    cache,          \* this.cache: the entries of the CacheManager, oldest first
    now,            \* the clock the cache reads
    calls,          \* number of generateText calls made so far
    llmPc,          \* position of the generateText call
    request,        \* the arguments of the call: prompt and options
    cacheKey,       \* generateText: the local cacheKey, NoKey for null
    providersToTry, \* generateText: the local providersToTry
    cursor,         \* generateText: position of the for loop in providersToTry
    attempt,        \* retry: remote calls made so far for the current provider
    lastError,      \* generateText: the local lastError
    response,       \* what the call returned or threw
    visited,        \* history: the providers the loop is done with, in order
    thrown,         \* the error the call threw, or NoThrown
    lastAttempt,    \* history: the latest remote call that failed
    cacheBefore,    \* history: this.cache when the call was made
    health,         \* the healthCheck call: position, loop index, results
    stream,         \* the streamText generator: position and what it yielded
    cacheOp         \* history: the latest operation made on the cache directly

agentVars == <<worldState, goals, actions, task, pc, openList, closedSet,
               elapsed, timeout, plan, error, index, result, events,
               startState, expanded, invoked, outcome>>

llmVars == <<providers, fallbackOrder, cache, now, calls, llmPc, request,
             cacheKey, providersToTry, cursor, attempt, lastError, response,
             thrown, visited, lastAttempt, cacheBefore, health, stream,
             cacheOp>>

\* what generateText leaves alone
otherCalls == <<health, stream, cacheOp>>

\* PerformanceMonitor (packages/core/src/utils/performance.ts), and a second
\* execute() call on the agent
VARIABLES
    metrics,    \* this.metrics: the stored metrics, oldest first
    inflight,   \* the monitored operations that have started and not ended
    monitorOp,  \* history: the latest operation on the monitor
    parked      \* the locals of the execute() call that is suspended at an await

\* POST /api/generate (apps/web/src/app/api/generate/route.ts)
VARIABLES
    routePc,       \* position of the stream's start(controller): what it awaits
    project,       \* the project record the persistence service holds
    sent,          \* the events enqueued on the stream so far, in order
    closed,        \* controller.close() was called
    chapterTotal,  \* contentPlan.chapters.length
    chapterIndex   \* the loop variable i

monitorVars == <<metrics, inflight, monitorOp>>

routeVars == <<routePc, project, sent, closed, chapterTotal, chapterIndex>>

appVars == <<monitorVars, parked, routeVars>>

vars == <<agentVars, llmVars, appVars>>

(***************************************************************************)
(* Program constants.                                                      *)
(***************************************************************************)
maxPlanningTime == 5000
maxPlanLength == 20
\* executeAction: action.timeout || 30000
DefaultActionTimeout == 30000
\* planActions: action.timeout || 1000 in estimatedDuration
DefaultDurationEstimate == 1000

(***************************************************************************)
(* Bounds of the model.                                                    *)
(***************************************************************************)
\* registries of the small family hold at most this many actions
MaxActions == 2
\* counter chains run up to maxPlanLength + MaxChainOver increments
MaxChainOver == 1

(***************************************************************************)
(* Values.                                                                 *)
(***************************************************************************)
Undefined == <<"undefined", 0>>
Null == <<"null", 0>>
True == <<"boolean", 1>>
False == <<"boolean", 0>>
Num(n) == <<"number", n>>
Fn(id) == <<"function", id>>
TypeOf(v) == v[1]

\* a === b
StrictEq(a, b) == a[1] = b[1] /\ a[2] = b[2]

\* JavaScript truthiness of a value (for ||)
Truthy(v) ==
    CASE TypeOf(v) = "undefined" -> FALSE
      [] TypeOf(v) = "null" -> FALSE
      [] TypeOf(v) = "boolean" -> v[2] = 1
      [] TypeOf(v) = "number" -> v[2] # 0
      [] OTHER -> TRUE

(***************************************************************************)
(* Objects as entry sequences.                                             *)
(***************************************************************************)
HasKey(obj, k) == \E i \in 1..Len(obj) : obj[i][1] = k

\* obj[k]: the value of an own key, undefined for a missing one
Get(obj, k) ==
    IF HasKey(obj, k)
    THEN obj[CHOOSE i \in 1..Len(obj) : obj[i][1] = k][2]
    ELSE Undefined

\* one property write obj[k] = v: an existing key keeps its place
Put(obj, k, v) ==
    IF HasKey(obj, k)
    THEN [i \in 1..Len(obj) |-> IF obj[i][1] = k THEN <<k, v>> ELSE obj[i]]
    ELSE Append(obj, <<k, v>>)

RECURSIVE Spread(_, _)
\* { ...a, ...b }
Spread(a, b) ==
    IF b = <<>> THEN a
    ELSE CHOOSE all \in {Spread(one, Tail(b)) :
                            one \in {Put(a, b[1][1], b[1][2])}} : TRUE

\* the keys the model uses, in localeCompare order
KeyOrder == <<"draftComplete", "n", "outlineReady">>
KeyRank(k) == CHOOSE i \in 1..Len(KeyOrder) : KeyOrder[i] = k

\* the place a stable sort gives element i, ranks[j] being what the comparator
\* orders element j by: after the elements of lower rank and the earlier
\* ones of equal rank
Place(ranks, i) ==
    1 + Cardinality({j \in 1..Len(ranks) :
            \/ ranks[j] < ranks[i]
            \/ (j < i /\ ranks[j] = ranks[i])})

StableSort(list, ranks) ==
    [p \in 1..Len(list) |->
        list[CHOOSE i \in 1..Len(list) : Place(ranks, i) = p]]

\* entries.sort(([a], [b]) => a.localeCompare(b)), a stable sort
SortByKey(entries) ==
    StableSort(entries, [i \in 1..Len(entries) |-> KeyRank(entries[i][1])])

\* what JSON.stringify writes for a value inside an array
JsonOf(v) == IF TypeOf(v) \in {"undefined", "function"} THEN Null ELSE v

(***************************************************************************)
(* Pure helpers of BaseAgent.                                              *)
(***************************************************************************)
\* the predicate functions goal conditions may hold, by identity
EvalFn(id, state) ==
    CASE id = 1 -> StrictEq(Get(state, "outlineReady"), True)
                   /\ StrictEq(Get(state, "draftComplete"), True)
      [] OTHER -> FALSE

ConditionHolds(state, key, expectedValue) ==
    IF TypeOf(expectedValue) = "function"
    THEN EvalFn(expectedValue[2], state)
    ELSE StrictEq(Get(state, key), expectedValue)

goalSatisfied(goal, state) ==
    \A i \in 1..Len(goal.conditions) :
        ConditionHolds(state, goal.conditions[i][1], goal.conditions[i][2])

preconditionsMet(action, state) ==
    \A i \in 1..Len(action.preconditions) :
        StrictEq(Get(state, action.preconditions[i][1]),
                 action.preconditions[i][2])

\* { ...effects, ...state }: a value the state already has wins
applyEffectsFirstWins(state, effects) == Spread(effects, state)

applyEffects(state, effects) == Spread(state, effects)

\* every unmet condition counted twice
calculateHeuristicDoubled(state, goal) ==
    2 * Cardinality({i \in 1..Len(goal.conditions) :
        ~ConditionHolds(state, goal.conditions[i][1], goal.conditions[i][2])})

calculateHeuristic(state, goal) ==
    Cardinality({i \in 1..Len(goal.conditions) :
        ~ConditionHolds(state, goal.conditions[i][1], goal.conditions[i][2])})

getStateKey(state) ==
    LET NotFunction(e) == TypeOf(e[2]) # "function"
        sortedEntries == SortByKey(SelectSeq(state, NotFunction))
    IN  [i \in 1..Len(sortedEntries) |->
            <<sortedEntries[i][1], JsonOf(sortedEntries[i][2])>>]

(***************************************************************************)
(* The inputs: registered actions, registered goals, initial world states. *)
(***************************************************************************)
Action(name, cost, pre, eff, ms) ==
    [name |-> name, cost |-> cost, preconditions |-> pre, effects |-> eff,
     timeout |-> ms]

\* the small family: actions over draftComplete and outlineReady
MakeOutline ==
    Action("MakeOutline", 1, << <<"draftComplete", False>> >>,
           << <<"outlineReady", True>> >>, 0)
WriteDraft ==
    Action("WriteDraft", 2, << <<"outlineReady", True>> >>,
           << <<"draftComplete", True>> >>, 2000)
Sketch ==
    Action("Sketch", 1, <<>>, << <<"outlineReady", True>> >>, 0)
Revise ==
    Action("Revise", 1, << <<"outlineReady", True>> >>,
           << <<"draftComplete", True>>, <<"outlineReady", False>> >>, 500)
Discard ==
    Action("Discard", 0, << <<"outlineReady", True>> >>,
           << <<"outlineReady", False>> >>, 0)
Forget ==
    Action("Forget", 1, <<>>, << <<"outlineReady", Undefined>> >>, 0)

ActionUniverse == {MakeOutline, WriteDraft, Sketch, Revise, Discard, Forget}

RECURSIVE DistinctSeqs(_, _)
\* the sequences of at most n distinct elements of S
DistinctSeqs(S, n) ==
    IF n = 0 THEN {<<>>}
    ELSE LET shorter == DistinctSeqs(S, n - 1)
         IN  shorter \cup
             {Append(q, x) : <<q, x>> \in
                 {<<q, x>> \in shorter \X S :
                     \A i \in 1..Len(q) : q[i] # x}}

SmallRegistries == DistinctSeqs(ActionUniverse, MaxActions)

SmallStates ==
    { << <<"draftComplete", False>>, <<"outlineReady", False>> >>,
      << <<"outlineReady", True>>, <<"draftComplete", False>> >>,
      << <<"draftComplete", False>> >>,
      << <<"draftComplete", True>>, <<"outlineReady", False>> >> }

Goal(name, conditions) == [name |-> name, conditions |-> conditions]

SmallGoals ==
    { Goal("draft", << <<"draftComplete", True>> >>),
      Goal("book", << <<"draftComplete", True>>, <<"outlineReady", True>> >>),
      Goal("checked", << <<"draftComplete", Fn(1)>> >>) }

\* the chain family: a counter n stepped by one action per value
Inc(i) ==
    Action("Inc", 1, << <<"n", Num(i)>> >>, << <<"n", Num(i + 1)>> >>, 0)
Finish(at) ==
    Action("Finish", 1, << <<"n", Num(at)>> >>,
           << <<"draftComplete", True>> >>, 0)
Jump(to) ==
    Action("Jump", 100, << <<"n", Num(0)>> >>, << <<"n", Num(to)>> >>, 0)

\* the whole way at once, at a high price
Leap ==
    Action("Leap", 200, << <<"n", Num(0)>> >>,
           << <<"draftComplete", True>> >>, 0)

\* Inc(0) .. Inc(len - 1), then Finish(len), then a Jump when to > 0, then
\* a Leap when asked for
Chain(len, to, leap) ==
    [i \in 1..len |-> Inc(i - 1)] \o <<Finish(len)>>
        \o (IF to > 0 THEN <<Jump(to)>> ELSE <<>>)
        \o (IF leap THEN <<Leap>> ELSE <<>>)

ChainLens == (maxPlanLength - 2)..(maxPlanLength + MaxChainOver)

ChainRegistries ==
    {Chain(c[1], c[2], c[3]) : c \in
        {c \in ChainLens \X (0..(maxPlanLength + MaxChainOver)) \X BOOLEAN :
            \/ c[2] = 0 /\ ~c[3]
            \/ c[2] \in {c[1] - 1, c[1]}}}

ChainState == << <<"n", Num(0)>>, <<"draftComplete", False>> >>
ChainGoal == Goal("draft", << <<"draftComplete", True>> >>)

Scenarios ==
    {[state |-> s, goal |-> g, actions |-> r] :
        <<s, g, r>> \in SmallStates \X SmallGoals \X SmallRegistries}
    \cup
    {[state |-> ChainState, goal |-> ChainGoal, actions |-> r] :
        r \in ChainRegistries}

TaskContext == <<"object", [context |-> 1]>>

NoPlan == [goal |-> "none", actions |-> <<>>, estimatedCost |-> 0,
           estimatedDuration |-> 0]
NoResult == [success |-> FALSE, data |-> Undefined, newState |-> Undefined,
             error |-> "none", duration |-> 0]

\* the locals of generateText before they are assigned
NoKey == <<>>
NoRequest == [prompt |-> <<"", "">>, model |-> "undefined",
              provider |-> "undefined", temperature |-> "undefined",
              maxTokens |-> "undefined", useCache |-> "undefined"]
NoError == [kind |-> "none", provider |-> "none"]
NoResponse == [content |-> <<>>, provider |-> "none", model |-> "none"]
NoThrown == [provider |-> "none", code |-> "none", cause |-> NoError]
NoAttempt == [provider |-> "none", kind |-> "none", n |-> 0]
\* no healthCheck, streamText or direct cache call has been made
NoHealth == [pc |-> "off", i |-> 1, results |-> <<>>]
NoStream == [pc |-> "off", provider |-> "none", yielded |-> <<>>,
             thrown |-> "none"]
NoCacheOp == [op |-> "none", key |-> 0, value |-> <<"none", 0>>, at |-> 0,
              result |-> "none"]

\* no LLMService has been constructed
LLMOff ==
    /\ providers = {}
    /\ fallbackOrder = <<>>
    /\ cache = <<>>
    /\ now = 0
    /\ calls = 0
    /\ llmPc = "off"
    /\ request = NoRequest
    /\ cacheKey = NoKey
    /\ providersToTry = <<>>
    /\ cursor = 1
    /\ attempt = 0
    /\ lastError = NoError
    /\ response = NoResponse
    /\ thrown = NoThrown
    /\ visited = <<>>
    /\ lastAttempt = NoAttempt
    /\ cacheBefore = <<>>
    /\ health = NoHealth
    /\ stream = NoStream
    /\ cacheOp = NoCacheOp

\* no monitored operation has run and no second execute() call was made
NoMonitorOp == [op |-> "none", at |-> 0, removed |-> 0, shifted |-> FALSE]
NoCall == [pc |-> "none"]

\* no request was posted
NoProject == [status |-> "none", progress |-> 0, inputType |-> "none"]

RouteOff ==
    /\ routePc = "off"
    /\ project = NoProject
    /\ sent = <<>>
    /\ closed = FALSE
    /\ chapterTotal = 0
    /\ chapterIndex = 0

MonitorOff ==
    /\ metrics = <<>>
    /\ inflight = <<>>
    /\ monitorOp = NoMonitorOp

AppOff ==
    /\ MonitorOff
    /\ parked = NoCall
    /\ RouteOff

\* no agent has been constructed
AgentOff ==
    /\ worldState = <<>>
    /\ goals = <<>>
    /\ actions = <<>>
    /\ task = [goal |-> "none", context |-> Undefined]
    /\ pc = "off"
    /\ openList = <<>>
    /\ closedSet = {}
    /\ elapsed = 0
    /\ timeout = "unset"
    /\ plan = NoPlan
    /\ error = "none"
    /\ index = 1
    /\ result = Undefined
    /\ events = <<>>
    /\ startState = <<>>
    /\ expanded = <<>>
    /\ invoked = <<>>
    /\ outcome = NoResult

Init ==
    /\ LLMOff
    /\ AppOff
    /\ \E sc \in Scenarios : \E name \in {sc.goal.name, "unregistered"} :
        /\ worldState = sc.state
        /\ goals = <<sc.goal>>
        /\ actions = sc.actions
        /\ task = [goal |-> name, context |-> TaskContext]
        /\ pc = "idle"
        /\ openList = <<>>
        /\ closedSet = {}
        /\ elapsed = 0
        /\ timeout = "unset"
        /\ plan = NoPlan
        /\ error = "none"
        /\ index = 1
        /\ result = Undefined
        /\ events = <<>>
        /\ startState = sc.state
        /\ expanded = <<>>
        /\ invoked = <<>>
        /\ outcome = NoResult

(***************************************************************************)
(* Events.                                                                 *)
(***************************************************************************)
Event(type, step) == [type |-> type, step |-> step]
Emit(log, type, step) == Append(log, Event(type, step))

\* the catch block without its emit
RejectedSilently(log, err) ==
    /\ events' = log
    /\ error' = err
    /\ pc' = "rejected"

\* the catch block of execute: log, emit task:failed, rethrow
Rejected(log, err) ==
    /\ events' = Emit(log, "task:failed", 0)
    /\ error' = err
    /\ pc' = "rejected"

(***************************************************************************)
(* execute, up to the call of planActions.                                 *)
(***************************************************************************)
\* this.goals.find(g => g.name === task.goal)
FindGoal(name) ==
    IF \E i \in 1..Len(goals) : goals[i].name = name
    THEN goals[CHOOSE i \in 1..Len(goals) :
                 /\ goals[i].name = name
                 /\ \A j \in 1..(i - 1) : goals[j].name # name]
    ELSE Goal("", <<>>)

GoalFound(name) == \E i \in 1..Len(goals) : goals[i].name = name

TheGoal == FindGoal(task.goal)

ExecuteGoalNotFound ==
    /\ pc = "idle"
    /\ ~GoalFound(task.goal)
    /\ Rejected(Emit(events, "task:started", 0), "GoalNotFound")
    /\ UNCHANGED <<llmVars, appVars, worldState, goals, actions, task, openList, closedSet,
                   elapsed, timeout, plan, index, result, startState, expanded,
                   invoked, outcome>>

\* a node of the open list; born is history: the number of the expansion
\* that pushed it and the place of its action in this.actions
Node(state, acts, cost, heuristic, born) ==
    [state |-> state, actions |-> acts, cost |-> cost, heuristic |-> heuristic,
     born |-> born]

\* execute emits task:started, finds the goal and enters planActions, which
\* seeds the open list with the live world state
ExecutePlan ==
    /\ pc = "idle"
    /\ GoalFound(task.goal)
    /\ events' = Emit(events, "task:started", 0)
    /\ result' = task.context
    /\ openList' = <<Node(worldState, <<>>, 0,
                          calculateHeuristic(worldState, TheGoal), <<0, 0>>)>>
    /\ closedSet' = {}
    /\ elapsed' = 0
    /\ timeout' = "armed"
    /\ pc' = "planning"
    /\ UNCHANGED <<llmVars, appVars, worldState, goals, actions, task, plan, error, index,
                   startState, expanded, invoked, outcome>>

(***************************************************************************)
(* planActions: one action per iteration of the search loop.               *)
(***************************************************************************)
F(node) == node.cost + node.heuristic

\* the list left as it is
SortByFNot(list) == list

\* openList.sort((a, b) => (a.cost + a.heuristic) - (b.cost + b.heuristic)),
\* a stable sort
SortByF(list) ==
    StableSort(list, [i \in 1..Len(list) |-> F(list[i])])

\* the time one iteration may take: none to speak of, or more than the whole
\* planning budget
Ticks == {0, maxPlanningTime + 1}
Advance(t, dt) == IF t + dt > maxPlanningTime THEN maxPlanningTime + 1 ELSE t + dt

\* the length check never discarding
TooLongNever(node) == FALSE

\* the length check with > for >=
TooLongOffByOne(node) == Len(node.actions) > maxPlanLength

\* current.actions.length >= this.maxPlanLength
TooLong(node) == Len(node.actions) >= maxPlanLength

\* closedSet.has(stateKey)
Closed(set, state) == getStateKey(state) \in set

\* action.timeout || fallback
\* the declared timeout taken as it is, without the default
TimeoutOrUndeclared(action, fallback) == action.timeout

TimeoutOr(action, fallback) ==
    IF action.timeout # 0 THEN action.timeout ELSE fallback

RECURSIVE SumDurations(_)
\* current.actions.reduce((sum, action) => sum + (action.timeout || 1000), 0)
SumDurations(acts) ==
    IF acts = <<>> THEN 0
    ELSE CHOOSE sum \in
             {SumDurations(front)
                  + TimeoutOr(actions[acts[Len(acts)]], DefaultDurationEstimate) :
              front \in {SubSeq(acts, 1, Len(acts) - 1)}} : TRUE

MakePlan(node) ==
    [goal |-> TheGoal.name, actions |-> node.actions,
     estimatedCost |-> node.cost,
     estimatedDuration |-> SumDurations(node.actions)]

\* the node the loop body pushes for action i
Successor(current, i) ==
    CHOOSE node \in
        {Node(newState, Append(current.actions, i),
              current.cost + actions[i].cost,
              calculateHeuristic(newState, TheGoal),
              <<Len(expanded) + 1, i>>) :
         newState \in {applyEffects(current.state, actions[i].effects)}} : TRUE

\* the loop over this.actions without its preconditionsMet test
SuccessorsUnchecked(current) ==
    [i \in 1..Len(actions) |-> Successor(current, i)]

\* the nodes the loop over this.actions pushes for current, in order
Successors(current) ==
    LET Met(i) == preconditionsMet(actions[i], current.state)
        met == SelectSeq([i \in 1..Len(actions) |-> i], Met)
    IN  [k \in 1..Len(met) |-> Successor(current, met[k])]

\* reading openList[0] without removing it
ShiftKept(sorted) == sorted

\* openList.shift(): what is left of the sorted list once its head is taken
Shift(sorted) == Tail(sorted)

Popping(dt) ==
    /\ pc = "planning"
    /\ openList # <<>>
    /\ elapsed' = Advance(elapsed, dt)

Sorted == {SortByF(openList)}

PlannerFrame ==
    UNCHANGED <<llmVars, appVars, worldState, goals, actions, task, error, index, result,
                events, startState, invoked, outcome>>

\* The timer callback (lines 152-158) is no action of the model: planActions
\* never awaits, so from setTimeout to the clearTimeout of the finally block
\* the call runs without returning to the event loop, and a timer callback
\* runs only from the event loop.  timeout is "armed" exactly while
\* pc = "planning".

\* the popped node satisfies the goal: return the plan
PlanReturn ==
    \E dt \in Ticks, sorted \in Sorted :
        LET current == Head(sorted) IN
        /\ Popping(dt)
        /\ goalSatisfied(TheGoal, current.state)
        /\ plan' = MakePlan(current)
        /\ openList' = Shift(sorted)
        /\ timeout' = "cleared"
        /\ pc' = "planned"
        /\ UNCHANGED <<closedSet, expanded>>
        /\ PlannerFrame

\* the popped node's action sequence has reached maxPlanLength: discard it
PlanDiscard ==
    \E dt \in Ticks, sorted \in Sorted :
        LET current == Head(sorted) IN
        /\ Popping(dt)
        /\ ~goalSatisfied(TheGoal, current.state)
        /\ TooLong(current)
        /\ openList' = Shift(sorted)
        /\ UNCHANGED <<closedSet, expanded, plan, pc, timeout>>
        /\ PlannerFrame

\* the popped node's state is already closed: skip it
PlanSkip ==
    \E dt \in Ticks, sorted \in Sorted :
        LET current == Head(sorted) IN
        /\ Popping(dt)
        /\ ~goalSatisfied(TheGoal, current.state)
        /\ ~TooLong(current)
        /\ Closed(closedSet, current.state)
        /\ openList' = Shift(sorted)
        /\ UNCHANGED <<closedSet, expanded, plan, pc, timeout>>
        /\ PlannerFrame

\* close the popped node's state and push its successors
PlanExpand ==
    \E dt \in Ticks, sorted \in Sorted :
        LET current == Head(sorted) IN
        /\ Popping(dt)
        /\ ~goalSatisfied(TheGoal, current.state)
        /\ ~TooLong(current)
        /\ ~Closed(closedSet, current.state)
        /\ closedSet' = closedSet \cup {getStateKey(current.state)}
        /\ openList' = Shift(sorted) \o Successors(current)
        /\ expanded' = Append(expanded, current.state)
        /\ UNCHANGED <<plan, pc, timeout>>
        /\ PlannerFrame

\* the open list is empty: planActions throws, execute catches and rejects
PlanNotFound ==
    /\ pc = "planning"
    /\ openList = <<>>
    /\ timeout' = "cleared"
    /\ Rejected(events, "NoPlanFound")
    /\ UNCHANGED <<llmVars, appVars, worldState, goals, actions, task, openList, closedSet,
                   elapsed, plan, index, result, startState, expanded,
                   invoked, outcome>>

(***************************************************************************)
(* execute, after planActions returned.                                    *)
(***************************************************************************)
\* plan.actions.length === 0: execute throws a planning error
ExecuteEmptyPlan ==
    /\ pc = "planned"
    /\ Len(plan.actions) = 0
    /\ Rejected(events, "NoValidActionPlan")
    /\ UNCHANGED <<llmVars, appVars, worldState, goals, actions, task, openList, closedSet,
                   elapsed, timeout, plan, index, result, startState, expanded,
                   invoked, outcome>>

\* the head of the for loop: emit action:started and call executeAction, which
\* invokes the behaviour and awaits it against the timeout
ActionStart ==
    /\ pc \in {"planned", "executing"}
    /\ index <= Len(plan.actions)
    /\ events' = Emit(events, "action:started", index)
    /\ invoked' = Append(invoked, index)
    /\ pc' = "awaiting"
    /\ UNCHANGED <<llmVars, appVars, worldState, goals, actions, task, openList, closedSet,
                   elapsed, timeout, plan, error, index, result, startState, expanded,
                   outcome>>

\* a state fragment a behaviour may report in its ActionResult
Fragment == <<"object", << <<"outlineReady", Null>> >> >>

BehaviourResult(success, newState, data) ==
    <<"object", [success |-> success, newState |-> newState, data |-> data]>>

\* how the behaviour of the action at plan position i may end
Behaviours(i) ==
    {[kind |-> "resolve", value |-> v] : v \in
        {BehaviourResult(TRUE, Undefined, <<"payload", i>>),
         BehaviourResult(TRUE, Fragment, Undefined),
         BehaviourResult(FALSE, Undefined, Undefined),
         Undefined}}
    \cup {[kind |-> "reject", value |-> Undefined],
          [kind |-> "timeout", value |-> Undefined]}

\* what executeAction returns for the way the race ended: the timer rejects
\* the race timeoutMs after the call, a behaviour that settles does so earlier
executeAction(b, action) ==
    LET timeoutMs == TimeoutOr(action, DefaultActionTimeout) IN
    IF b.kind = "resolve"
    THEN [success |-> TRUE, data |-> b.value, newState |-> Undefined,
          error |-> "none", duration |-> 0]
    ELSE [success |-> FALSE, data |-> Undefined, newState |-> Undefined,
          error |-> IF b.kind = "timeout" THEN "ActionTimedOut"
                    ELSE "ActionFailed",
          duration |-> IF b.kind = "timeout" THEN timeoutMs ELSE 0]

\* a || b
OrElse(a, b) == IF Truthy(a) THEN a ELSE b

\* assigning the fragment instead of merging it
updateWorldStateReplace(state, newState) == newState

\* the world state updateWorldState(newState) leaves
updateWorldState(state, newState) == Spread(state, newState)

\* taking the fragment from the ActionResult the behaviour resolved with
StateUpdateFromBehaviour(actionResult, action) ==
    IF /\ TypeOf(actionResult.data) = "object"
       /\ Truthy(actionResult.data[2].newState)
    THEN actionResult.data[2].newState[2]
    ELSE action.effects

\* actionResult.newState || action.effects
StateUpdate(actionResult, action) ==
    IF Truthy(actionResult.newState)
    THEN actionResult.newState[2]
    ELSE action.effects

\* action:completed emitted before the world state is updated
EmitSuccessCompletedFirst(log, step) ==
    Emit(Emit(log, "action:completed", step), "state:updated", step)

\* what a successful action emits: state:updated from updateWorldState, then
\* action:completed
EmitSuccess(log, step) ==
    Emit(Emit(log, "state:updated", step), "action:completed", step)

CurrentAction == actions[plan.actions[index]]

\* executeAction returned a success: merge, emit, go on with the next action
ActionSucceeds ==
    \E b \in Behaviours(index) :
        LET actionResult == executeAction(b, CurrentAction) IN
        /\ pc = "awaiting"
        /\ actionResult.success
        /\ outcome' = actionResult
        /\ worldState' = updateWorldState(worldState,
                             StateUpdate(actionResult, CurrentAction))
        /\ result' = OrElse(actionResult.data, result)
        /\ events' = EmitSuccess(events, index)
        /\ index' = index + 1
        /\ pc' = "executing"
        /\ UNCHANGED <<llmVars, appVars, goals, actions, task, openList, closedSet, elapsed,
                       timeout, plan, error, startState, expanded, invoked>>

\* executeAction returned the failure result of a race that ended the way
\* `kind` says: execute throws, catches and rejects
Failing(kind) ==
    \E b \in {x \in Behaviours(index) : x.kind = kind} :
        LET actionResult == executeAction(b, CurrentAction) IN
        /\ pc = "awaiting"
        /\ ~actionResult.success
        /\ outcome' = actionResult
        /\ Rejected(events, actionResult.error)
        /\ UNCHANGED <<llmVars, appVars, worldState, goals, actions, task, openList, closedSet,
                       elapsed, timeout, plan, index, result, startState,
                       expanded, invoked>>

\* the behaviour threw or rejected before the timer fired
ActionFails == Failing("reject")

\* the timer fired while the behaviour was still pending
ActionTimesOut == Failing("timeout")

\* the for loop is over: emit task:completed and return result
TaskCompleted ==
    /\ pc = "executing"
    /\ index > Len(plan.actions)
    /\ events' = Emit(events, "task:completed", 0)
    /\ pc' = "resolved"
    /\ UNCHANGED <<llmVars, appVars, worldState, goals, actions, task, openList, closedSet,
                   elapsed, timeout, plan, error, index, result, startState, expanded,
                   invoked, outcome>>

Next ==
    \/ ExecuteGoalNotFound
    \/ ExecutePlan
    \/ PlanReturn
    \/ PlanDiscard
    \/ PlanSkip
    \/ PlanExpand
    \/ PlanNotFound
    \/ ExecuteEmptyPlan
    \/ ActionStart
    \/ ActionSucceeds
    \/ ActionFails
    \/ ActionTimesOut
    \/ TaskCompleted

Spec == Init /\ [][Next]_vars

\* execute and planActions run to completion once called: the search loop is
\* synchronous code and every awaited race settles
FairSpec == Spec /\ WF_vars(Next)

\* the steps the runtime takes by itself: synchronous code and timers. How
\* and when a behaviour settles is up to the behaviour.
Scheduled ==
    \/ ExecuteGoalNotFound
    \/ ExecutePlan
    \/ PlanReturn
    \/ PlanDiscard
    \/ PlanSkip
    \/ PlanExpand
    \/ PlanNotFound
    \/ ExecuteEmptyPlan
    \/ ActionStart
    \/ ActionTimesOut
    \/ TaskCompleted

\* a behaviour may stay pending for ever; the timer of the race still fires
TimerSpec == Spec /\ WF_vars(Scheduled)

(***************************************************************************)
(* LLMService: configuration and requests.                                 *)
(***************************************************************************)
\* type AIProvider
AIProviders == {"anthropic", "openai", "google"}
\* retry(..., { retries: 3 })
retries == 3

\* fallback lists hold at most this many providers
MaxProviders == 2
\* generateText is called at most this many times on one service
MaxCalls == 2
\* the clock runs from 0 to MaxTime
MaxTime == 2
\* cacheConfig.ttl and cacheConfig.maxSize of the modelled services
CacheTtl == 1
CacheMaxSize == 2

\* a prompt is <<its first 100 characters, the rest>>
Prompts == {<<"intro", "">>, <<"intro", "more">>}

\* prompt.slice(0, 100)
Slice100(prompt) == prompt[1]

\* the options of a call; "undefined" is an option left out
Requests ==
    [prompt : Prompts,
     model : {"undefined"},
     provider : {"undefined", "openai"},
     temperature : {"undefined"},
     maxTokens : {"undefined"},
     useCache : {"undefined", "false"}]

\* the services of the model: a fallback list and the providers whose
\* factory initializeProviders could create
Services ==
    {[fallbackOrder |-> order, providers |-> AIProviders \ missing] :
        order \in DistinctSeqs(AIProviders, MaxProviders),
        missing \in SUBSET {"anthropic"}}

(***************************************************************************)
(* The response cache (CacheManager of utils/cache): entries in insertion  *)
(* order, each with the time after which it is expired.                    *)
(***************************************************************************)
CacheEntry(key, value, at) ==
    [key |-> key, value |-> value, expires |-> at + CacheTtl]

\* an entry whose TTL has not yet elapsed at the time of its expiry
IsLiveAtExpiry(entry, t) == t <= entry.expires

\* the TTL of the entry has not elapsed at time t
IsLive(entry, t) == t < entry.expires

Without(entries, key) == SelectSeq(entries, LAMBDA e : e.key # key)

\* cache.has(key): is there a live entry under key
CacheHas(entries, key, t) ==
    \E i \in 1..Len(entries) : entries[i].key = key /\ IsLive(entries[i], t)

\* cache.get(key) of a live entry
CacheGet(entries, key, t) ==
    entries[CHOOSE i \in 1..Len(entries) : entries[i].key = key].value

\* the entries a read of key leaves: an expired entry is discarded
CacheRead(entries, key, t) ==
    IF CacheHas(entries, key, t) THEN entries ELSE Without(entries, key)

\* a full cache gives up its latest entry
CacheSetEvictsLatest(entries, key, value, t) ==
    IF \E i \in 1..Len(entries) : entries[i].key = key
    THEN [i \in 1..Len(entries) |->
             IF entries[i].key = key THEN CacheEntry(key, value, t)
             ELSE entries[i]]
    ELSE Append(IF Len(entries) >= CacheMaxSize
                THEN SubSeq(entries, 1, Len(entries) - 1)
                ELSE entries,
                CacheEntry(key, value, t))

\* cache.set(key, value): the oldest entry is evicted when the cache is full
CacheSet(entries, key, value, t) ==
    IF \E i \in 1..Len(entries) : entries[i].key = key
    THEN [i \in 1..Len(entries) |->
             IF entries[i].key = key THEN CacheEntry(key, value, t)
             ELSE entries[i]]
    ELSE Append(IF Len(entries) >= CacheMaxSize THEN Tail(entries)
                ELSE entries,
                CacheEntry(key, value, t))

(***************************************************************************)
(* LLMService.generateText.                                                *)
(***************************************************************************)
\* the key without the prompt
getCacheKeyNoPrompt(type, prompt, options) ==
    <<type, options.model, options.provider, options.temperature,
      options.maxTokens>>

\* base64 of the JSON text of the key object: one string per key object
getCacheKey(type, prompt, options) ==
    <<type, Slice100(prompt), options.model, options.provider,
      options.temperature, options.maxTokens>>

\* the key computed whatever useCache says
CacheKeyAlways(req) == getCacheKey("text", req.prompt, req)

\* options.useCache !== false ? getCacheKey('text', prompt, options) : null
CacheKeyFor(req) ==
    IF req.useCache # "false"
    THEN getCacheKey("text", req.prompt, req)
    ELSE NoKey

\* the fallback list whatever provider the caller asked for
ProvidersToTryFallback(req, order) == order

\* options.provider ? [options.provider] : this.fallbackOrder
ProvidersToTry(req, order) ==
    IF req.provider # "undefined" THEN <<req.provider>> ELSE order

getDefaultModel(provider) ==
    CASE provider = "anthropic" -> "claude-3-5-sonnet-20241022"
      [] provider = "openai" -> "gpt-4-turbo"
      [] provider = "google" -> "gemini-1.5-pro"

\* getModel(provider) is not null
HasModel(provider) == provider \in providers

\* the AIResponse built from what the remote call number n returned
AIResponse(req, provider, n) ==
    [content |-> <<req.prompt, n>>,
     provider |-> provider,
     model |-> IF req.model # "undefined" THEN req.model
               ELSE getDefaultModel(provider)]

\* what a remote call may raise
ErrorKinds == {"transient", "permanent"}

\* new AIServiceError(message, providersToTry[0], 'GENERATION_FAILED',
\*                    lastError || undefined)
AIServiceError(tried, cause) ==
    [provider |-> IF tried = <<>> THEN "undefined" ELSE tried[1],
     code |-> "GENERATION_FAILED",
     cause |-> cause]

\* the loop is done with a provider: after how many remote calls, and how
Visit(provider, n, how) == [provider |-> provider, attempts |-> n, how |-> how]

ServiceStarted ==
    /\ AgentOff
    /\ AppOff
    /\ \E service \in Services :
        /\ providers = service.providers
        /\ fallbackOrder = service.fallbackOrder
    /\ now = 0
    /\ calls = 0
    /\ llmPc = "idle"
    /\ request = NoRequest
    /\ cacheKey = NoKey
    /\ providersToTry = <<>>
    /\ cursor = 1
    /\ attempt = 0
    /\ lastError = NoError
    /\ response = NoResponse
    /\ thrown = NoThrown
    /\ visited = <<>>
    /\ lastAttempt = NoAttempt
    /\ cacheBefore = <<>>
    /\ health = NoHealth
    /\ stream = NoStream
    /\ cacheOp = NoCacheOp

LLMInit ==
    /\ ServiceStarted
    /\ cache = <<>>

\* time passes between two calls; a call takes no time. The service reads
\* the clock only to compare it with the expiry of an entry, so with an empty
\* cache the passing of time changes nothing and is left out
Tick ==
    /\ llmPc \in {"idle", "returned", "failed"}
    /\ cache # <<>>
    /\ now < MaxTime
    /\ now' = now + 1
    /\ UNCHANGED <<agentVars, appVars, otherCalls, providers, fallbackOrder, cache,
                   calls, llmPc, request, cacheKey, providersToTry, cursor,
                   attempt, lastError, response, thrown, visited, lastAttempt,
                   cacheBefore>>

\* the cache is never consulted
IsHitNever(key, entries, t) == FALSE

\* cacheKey && this.cache.has(cacheKey)
IsHit(key, entries, t) == key # NoKey /\ CacheHas(entries, key, t)

CallAllowed ==
    /\ llmPc \in {"idle", "returned", "failed"}
    /\ calls < MaxCalls

\* the cached value is returned (part_001 66-68)
ReturnsCached(req, key) ==
    /\ calls' = calls + 1
    /\ request' = req
    /\ cacheKey' = key
    /\ cacheBefore' = cache
    /\ response' = CacheGet(cache, key, now)
    /\ thrown' = NoThrown
    /\ visited' = <<>>
    /\ providersToTry' = <<>>
    /\ cursor' = 1
    /\ attempt' = 0
    /\ lastError' = NoError
    /\ lastAttempt' = NoAttempt
    /\ llmPc' = "returned"
    /\ UNCHANGED <<agentVars, appVars, providers, fallbackOrder, cache, now>>

\* providersToTry is computed and the for loop begins (part_001 70-77)
EntersLoop(req, key) ==
    /\ calls' = calls + 1
    /\ request' = req
    /\ cacheKey' = key
    /\ cacheBefore' = cache
    /\ cache' = IF key = NoKey THEN cache ELSE CacheRead(cache, key, now)
    /\ response' = NoResponse
    /\ thrown' = NoThrown
    /\ visited' = <<>>
    /\ providersToTry' = ProvidersToTry(req, fallbackOrder)
    /\ cursor' = 1
    /\ attempt' = 0
    /\ lastError' = NoError
    /\ lastAttempt' = NoAttempt
    /\ llmPc' = "trying"
    /\ UNCHANGED <<agentVars, appVars, providers, fallbackOrder, now>>

\* generateText finds a live entry under its key and returns it
GenerateTextHit ==
    \E req \in Requests : \E key \in {CacheKeyFor(req)} :
        /\ CallAllowed
        /\ IsHit(key, cache, now)
        /\ ReturnsCached(req, key)
        /\ UNCHANGED otherCalls

\* generateText does not use the cache or finds no live entry: it enters
\* the loop over providersToTry
GenerateTextMiss ==
    \E req \in Requests : \E key \in {CacheKeyFor(req)} :
        /\ CallAllowed
        /\ ~IsHit(key, cache, now)
        /\ EntersLoop(req, key)
        /\ UNCHANGED otherCalls

\* the provider the for loop is at
Provider == providersToTry[cursor]

InLoop ==
    /\ llmPc = "trying"
    /\ cursor <= Len(providersToTry)

LoopFrame == UNCHANGED <<agentVars, appVars, otherCalls, providers, fallbackOrder, now, calls,
                         request, cacheKey, providersToTry, cacheBefore>>

\* getModel returned null: the throw is caught at once and the loop goes on
ModelUnavailable ==
    /\ InLoop
    /\ ~HasModel(Provider)
    /\ lastError' = [kind |-> "unavailable", provider |-> Provider]
    /\ visited' = Append(visited, Visit(Provider, 0, "unavailable"))
    /\ cursor' = cursor + 1
    /\ LoopFrame
    /\ UNCHANGED <<cache, llmPc, attempt, response, thrown, lastAttempt>>

\* the remote call returns: the response is cached under the key of the
\* call, if it has one, and returned
RemoteSucceeds ==
    /\ InLoop
    /\ HasModel(Provider)
    /\ \E r \in {AIResponse(request, Provider, calls)} :
        /\ response' = r
        /\ cache' = IF cacheKey # NoKey
                    THEN CacheSet(cache, cacheKey, r, now)
                    ELSE cache
    /\ visited' = Append(visited, Visit(Provider, attempt + 1, "ok"))
    /\ attempt' = attempt + 1
    /\ llmPc' = "returned"
    /\ LoopFrame
    /\ UNCHANGED <<cursor, lastError, thrown, lastAttempt>>

\* one retry more than the options allow
ShouldRetryOnceMore(kind, n) == n <= retries

\* retry runs the function again after any error, until n = retries retries
\* have been made (the function never calls bail)
ShouldRetry(kind, n) == n < retries

\* the remote call raises an error and retry calls again
RemoteFailsRetry ==
    \E kind \in ErrorKinds :
        /\ InLoop
        /\ HasModel(Provider)
        /\ ShouldRetry(kind, attempt)
        /\ attempt' = attempt + 1
        /\ lastAttempt' = [provider |-> Provider, kind |-> kind,
                           n |-> attempt + 1]
        /\ LoopFrame
        /\ UNCHANGED <<cache, llmPc, cursor, lastError, response, thrown,
                       visited>>

\* the remote call raises an error and retry gives up: the error is caught
\* and the loop goes on
RemoteFailsExhausted ==
    \E kind \in ErrorKinds :
        /\ InLoop
        /\ HasModel(Provider)
        /\ ~ShouldRetry(kind, attempt)
        /\ lastAttempt' = [provider |-> Provider, kind |-> kind,
                           n |-> attempt + 1]
        /\ lastError' = [kind |-> kind, provider |-> Provider]
        /\ visited' = Append(visited, Visit(Provider, attempt + 1, kind))
        /\ cursor' = cursor + 1
        /\ attempt' = 0
        /\ LoopFrame
        /\ UNCHANGED <<cache, llmPc, response, thrown>>

\* the loop is over and nothing was returned
AllProvidersFailed ==
    /\ llmPc = "trying"
    /\ cursor > Len(providersToTry)
    /\ thrown' = AIServiceError(providersToTry, lastError)
    /\ llmPc' = "failed"
    /\ LoopFrame
    /\ UNCHANGED <<cache, cursor, attempt, lastError, response, visited,
                   lastAttempt>>

LLMNext ==
    \/ Tick
    \/ GenerateTextHit
    \/ GenerateTextMiss
    \/ ModelUnavailable
    \/ RemoteSucceeds
    \/ RemoteFailsRetry
    \/ RemoteFailsExhausted
    \/ AllProvidersFailed

LLMSpec == LLMInit /\ [][LLMNext]_vars

(***************************************************************************)
(* LLMService.generateObject.                                              *)
(***************************************************************************)
\* the schemas callers validate against
Schemas == {"Outline", "Chapter"}

\* the options of a generateObject call; there is no maxTokens option
ObjectRequests ==
    [schema : Schemas,
     prompt : {<<"intro", "">>},
     model : {"undefined"},
     provider : {"undefined", "openai", "anthropic"},
     temperature : {"undefined"},
     maxTokens : {"undefined"},
     useCache : {"undefined", "false"}]

\* options.useCache !== false ? getCacheKey('object', options.prompt, options)
\*                            : null
ObjectKeyFor(req) ==
    IF req.useCache # "false"
    THEN getCacheKey("object", req.prompt, req)
    ELSE NoKey

\* the first provider of the fallback order that has a model
ObjectProviderFirstReady(req, order) ==
    IF req.provider # "undefined" THEN req.provider
    ELSE IF \E i \in 1..Len(order) : HasModel(order[i])
         THEN order[CHOOSE i \in 1..Len(order) :
                        /\ HasModel(order[i])
                        /\ \A j \in 1..(i - 1) : ~HasModel(order[j])]
         ELSE "undefined"

\* options.provider || this.fallbackOrder[0]
ObjectProvider(req, order) ==
    IF req.provider # "undefined" THEN req.provider
    ELSE IF order = <<>> THEN "undefined" ELSE order[1]

\* result.object of the remote call number n: an object of the schema asked
\* for
ObjectOf(req, n) ==
    [content |-> <<req.schema, req.prompt, n>>,
     provider |-> "none",
     model |-> "none"]

\* how the remote generateObject may fail: the call itself, or the
\* validation of what it returned against the schema
ObjectFailures == {"call", "validation"}

\* new AIServiceError(message, provider, code, cause)
ObjectError(provider, code, cause) ==
    [provider |-> provider, code |-> code, cause |-> cause]

ObjectFrame ==
    UNCHANGED <<agentVars, appVars, otherCalls, providers, fallbackOrder, now, cursor,
                attempt, lastError, lastAttempt>>

\* generateObject finds a live entry under its key and returns it
GenerateObjectHit ==
    \E req \in ObjectRequests : \E key \in {ObjectKeyFor(req)} :
        /\ CallAllowed
        /\ IsHit(key, cache, now)
        /\ calls' = calls + 1
        /\ request' = req
        /\ cacheKey' = key
        /\ cacheBefore' = cache
        /\ response' = CacheGet(cache, key, now)
        /\ thrown' = NoThrown
        /\ visited' = <<>>
        /\ providersToTry' = <<>>
        /\ llmPc' = "returned"
        /\ ObjectFrame
        /\ UNCHANGED cache

\* no live entry, and getModel returns null: generateObject throws
GenerateObjectUnavailable ==
    \E req \in ObjectRequests : \E key \in {ObjectKeyFor(req)} :
        /\ CallAllowed
        /\ ~IsHit(key, cache, now)
        /\ \E provider \in {ObjectProvider(req, fallbackOrder)} :
            /\ ~HasModel(provider)
            /\ thrown' = ObjectError(provider, "MODEL_UNAVAILABLE", NoError)
            /\ providersToTry' = <<provider>>
        /\ calls' = calls + 1
        /\ request' = req
        /\ cacheKey' = key
        /\ cacheBefore' = cache
        /\ cache' = IF key = NoKey THEN cache ELSE CacheRead(cache, key, now)
        /\ response' = NoResponse
        /\ visited' = <<>>
        /\ llmPc' = "failed"
        /\ ObjectFrame

\* no live entry, and the provider has a model: the remote call is made
GenerateObjectCall ==
    \E req \in ObjectRequests : \E key \in {ObjectKeyFor(req)} :
        /\ CallAllowed
        /\ ~IsHit(key, cache, now)
        /\ \E provider \in {ObjectProvider(req, fallbackOrder)} :
            /\ HasModel(provider)
            /\ thrown' = NoThrown
            /\ providersToTry' = <<provider>>
        /\ calls' = calls + 1
        /\ request' = req
        /\ cacheKey' = key
        /\ cacheBefore' = cache
        /\ cache' = IF key = NoKey THEN cache ELSE CacheRead(cache, key, now)
        /\ response' = NoResponse
        /\ visited' = <<>>
        /\ llmPc' = "object"
        /\ ObjectFrame

\* the remote call returned an object that passed validation
ObjectSucceeds ==
    /\ llmPc = "object"
    /\ \E object \in {ObjectOf(request, calls)} :
        /\ response' = object
        /\ cache' = IF cacheKey # NoKey
                    THEN CacheSet(cache, cacheKey, object, now)
                    ELSE cache
    /\ visited' = <<Visit(providersToTry[1], 1, "ok")>>
    /\ llmPc' = "returned"
    /\ ObjectFrame
    /\ UNCHANGED <<calls, request, cacheKey, cacheBefore, thrown,
                   providersToTry>>

\* the remote call or the validation failed: generateObject throws
ObjectFails ==
    \E kind \in ObjectFailures :
        /\ llmPc = "object"
        /\ thrown' = ObjectError(providersToTry[1], "OBJECT_GENERATION_FAILED",
                                 [kind |-> kind, provider |-> providersToTry[1]])
        /\ visited' = <<Visit(providersToTry[1], 1, kind)>>
        /\ llmPc' = "failed"
        /\ ObjectFrame
        /\ UNCHANGED <<calls, request, cacheKey, cacheBefore, cache, response,
                       providersToTry>>

ObjectNext ==
    \/ Tick
    \/ GenerateObjectHit
    \/ GenerateObjectUnavailable
    \/ GenerateObjectCall
    \/ ObjectSucceeds
    \/ ObjectFails

ObjectSpec == LLMInit /\ [][ObjectNext]_vars

(***************************************************************************)
(* LLMService.streamText: an async generator, driven by a consumer that    *)
(* asks for the next chunk until the generator is over.                    *)
(***************************************************************************)
\* the provider stream delivers at most this many text chunks
MaxChunks == 2

\* the provider option of a streamText call
StreamRequests == {"undefined", "openai", "anthropic"}

\* options.provider || this.fallbackOrder[0]
StreamProvider(option, order) ==
    IF option # "undefined" THEN option
    ELSE IF order = <<>> THEN "undefined" ELSE order[1]

\* { content: chunk, done: false }
Chunk(n) == [content |-> <<"chunk", n>>, done |-> FALSE, usage |-> <<>>]

\* the final chunk without its usage
FinalChunkNoUsage(totalTokens) ==
    [content |-> <<>>, done |-> TRUE, usage |-> <<>>]

\* { content: '', done: true, usage: { totalTokens } }
FinalChunk(totalTokens) ==
    [content |-> <<>>, done |-> TRUE, usage |-> <<totalTokens>>]

\* finalResult.usage.totalTokens: what the provider counts for the stream
TotalTokens(yielded) == Len(yielded)

StreamFrame ==
    UNCHANGED <<agentVars, appVars, providers, fallbackOrder, cache, now, calls, llmPc,
                request, cacheKey, providersToTry, cursor, attempt, lastError,
                response, thrown, visited, lastAttempt, cacheBefore, health,
                cacheOp>>

\* first next(): getModel returns null and the generator throws
StreamUnavailable ==
    /\ llmPc = "idle"
    /\ stream.pc = "off"
    /\ \E option \in StreamRequests :
        \E provider \in {StreamProvider(option, fallbackOrder)} :
            /\ ~HasModel(provider)
            /\ stream' = [pc |-> "thrown", provider |-> provider,
                          yielded |-> <<>>, thrown |-> "MODEL_UNAVAILABLE"]
    /\ StreamFrame

\* first next(): the provider stream is opened
StreamOpen ==
    /\ llmPc = "idle"
    /\ stream.pc = "off"
    /\ \E option \in StreamRequests :
        \E provider \in {StreamProvider(option, fallbackOrder)} :
            /\ HasModel(provider)
            /\ stream' = [pc |-> "streaming", provider |-> provider,
                          yielded |-> <<>>, thrown |-> "none"]
    /\ StreamFrame

\* the provider stream delivers a chunk and the generator yields it
StreamChunk ==
    /\ stream.pc = "streaming"
    /\ Len(stream.yielded) < MaxChunks
    /\ stream' = [stream EXCEPT
                    !.yielded = Append(@, Chunk(Len(stream.yielded) + 1))]
    /\ StreamFrame

\* the provider stream is over and finalize() returned: the final chunk
StreamFinal ==
    /\ stream.pc = "streaming"
    /\ stream' = [stream EXCEPT
                    !.pc = "final",
                    !.yielded = Append(@, FinalChunk(TotalTokens(@)))]
    /\ StreamFrame

\* next() after the final chunk: the generator returns
StreamEnd ==
    /\ stream.pc = "final"
    /\ stream' = [stream EXCEPT !.pc = "done"]
    /\ StreamFrame

\* opening the stream, reading it or finalize() throws: the catch rethrows
StreamFails ==
    /\ stream.pc = "streaming"
    /\ stream' = [stream EXCEPT !.pc = "thrown", !.thrown = "STREAM_FAILED"]
    /\ StreamFrame

StreamNext ==
    \/ StreamUnavailable
    \/ StreamOpen
    \/ StreamChunk
    \/ StreamFinal
    \/ StreamEnd
    \/ StreamFails

StreamSpec == LLMInit /\ [][StreamNext]_vars

(***************************************************************************)
(* healthCheck (part_001 392-410): one generateText call per provider of   *)
(* fallbackOrder, each inside its own try/catch.                           *)
(***************************************************************************)
\* generateText('Hello', {provider, maxTokens: 10, useCache: false,
\*                        timeout: 5000})
HealthRequest(provider) ==
    [prompt |-> <<"Hello", "">>, model |-> "undefined", provider |-> provider,
     temperature |-> "undefined", maxTokens |-> "10", useCache |-> "false"]

\* what an earlier generateText('Hello', {provider, maxTokens: 10}) of a
\* caller has left in the cache
HelloEntry(provider) ==
    CacheEntry(getCacheKey("text", <<"Hello", "">>, HealthRequest(provider)),
               AIResponse(HealthRequest(provider), provider, 0), 0)

\* the service with an empty cache, or with the answer to an earlier
\* 'Hello' in it
HealthInit ==
    /\ ServiceStarted
    /\ \/ cache = <<>>
       \/ /\ fallbackOrder # <<>>
          /\ HasModel(fallbackOrder[1])
          /\ cache = <<HelloEntry(fallbackOrder[1])>>

\* const results: Partial<Record<AIProvider, boolean>> = {}
HealthCheckStart ==
    /\ health.pc = "off"
    /\ llmPc = "idle"
    /\ health' = [pc |-> "probing", i |-> 1, results |-> <<>>]
    /\ UNCHANGED <<agentVars, appVars, stream, cacheOp, providers, fallbackOrder, cache,
                   now, calls, llmPc, request, cacheKey, providersToTry,
                   cursor, attempt, lastError, response, thrown, visited,
                   lastAttempt, cacheBefore>>

\* for (const provider of this.fallbackOrder): await this.generateText(...)
HealthProbe ==
    /\ health.pc = "probing"
    /\ health.i <= Len(fallbackOrder)
    /\ \E req \in {HealthRequest(fallbackOrder[health.i])} :
        \E key \in {CacheKeyFor(req)} :
            IF IsHit(key, cache, now)
            THEN ReturnsCached(req, key)
            ELSE EntersLoop(req, key)
    /\ health' = [health EXCEPT !.pc = "awaiting"]
    /\ UNCHANGED <<stream, cacheOp>>

\* results[provider] = true, or false in the catch; the providers the call
\* went to are kept with the entry
HealthRecord ==
    /\ health.pc = "awaiting"
    /\ llmPc \in {"returned", "failed"}
    /\ health' = [pc |-> "probing", i |-> health.i + 1,
                  results |-> Append(health.results,
                      [provider |-> fallbackOrder[health.i],
                       available |-> llmPc = "returned",
                       visited |-> visited])]
    /\ UNCHANGED <<agentVars, appVars, stream, cacheOp, providers, fallbackOrder, cache,
                   now, calls, llmPc, request, cacheKey, providersToTry,
                   cursor, attempt, lastError, response, thrown, visited,
                   lastAttempt, cacheBefore>>

\* return results as Record<AIProvider, boolean>
HealthCheckReturn ==
    /\ health.pc = "probing"
    /\ health.i > Len(fallbackOrder)
    /\ health' = [health EXCEPT !.pc = "returned"]
    /\ UNCHANGED <<agentVars, appVars, stream, cacheOp, providers, fallbackOrder, cache,
                   now, calls, llmPc, request, cacheKey, providersToTry,
                   cursor, attempt, lastError, response, thrown, visited,
                   lastAttempt, cacheBefore>>

HealthNext ==
    \/ HealthCheckStart
    \/ HealthProbe
    \/ ModelUnavailable
    \/ RemoteSucceeds
    \/ RemoteFailsRetry
    \/ RemoteFailsExhausted
    \/ AllProvidersFailed
    \/ HealthRecord
    \/ HealthCheckReturn

HealthSpec == HealthInit /\ [][HealthNext]_vars

(***************************************************************************)
(* The cache called directly: set, get and clear on a few keys, with time  *)
(* passing between the calls.                                              *)
(***************************************************************************)
CacheKeys == 1..(CacheMaxSize + 1)

\* the value a set made at time t stores: what is set at different times
\* differs
CacheValue(t) == <<"v", t>>

\* what get gives when it finds no live entry
Miss == <<"miss", 0>>

CacheFrame ==
    UNCHANGED <<agentVars, appVars, health, stream, providers, fallbackOrder, now,
                   calls, llmPc, request, cacheKey, providersToTry, cursor, attempt,
                   lastError, response, thrown, visited, lastAttempt,
                   cacheBefore>>

\* set(key, value); cacheOp keeps whether an entry had to make room
CacheSetOp ==
    \E key \in CacheKeys : \E value \in {CacheValue(now)} :
        /\ cache' = CacheSet(cache, key, value, now)
        /\ cacheOp' = [op |-> "set", key |-> key, value |-> value, at |-> now,
                       result |-> IF /\ Len(cache) >= CacheMaxSize
                                     /\ \A i \in 1..Len(cache) :
                                            cache[i].key # key
                                  THEN "evicted" ELSE "none"]
        /\ CacheFrame

\* get(key): the value of a live entry, or a miss; cacheOp keeps whether
\* the miss was an expired entry
CacheGetOp ==
    \E key \in CacheKeys :
        /\ cache' = CacheRead(cache, key, now)
        /\ cacheOp' = [op |-> "get", key |-> key,
                       value |-> IF CacheHas(cache, key, now)
                                 THEN CacheGet(cache, key, now)
                                 ELSE Miss,
                       at |-> 0,
                       result |-> IF CacheHas(cache, key, now) THEN "live"
                                  ELSE IF Without(cache, key) # cache
                                       THEN "expired" ELSE "absent"]
        /\ CacheFrame

\* clear()
CacheClearOp ==
    /\ cache' = <<>>
    /\ cacheOp' = [NoCacheOp EXCEPT !.op = "clear"]
    /\ CacheFrame

CacheNext ==
    \/ Tick
    \/ CacheSetOp
    \/ CacheGetOp
    \/ CacheClearOp

CacheSpec == LLMInit /\ [][CacheNext]_vars

(***************************************************************************)
(* What the properties speak of, stated without the planner's helpers.     *)
(***************************************************************************)
\* every precondition key of a holds in s by strict equality
Applicable(a, s) ==
    \A i \in 1..Len(a.preconditions) :
        LET k == a.preconditions[i][1]
            v == a.preconditions[i][2]
            have == IF \E j \in 1..Len(s) : s[j][1] = k
                    THEN s[CHOOSE j \in 1..Len(s) : s[j][1] = k][2]
                    ELSE Undefined
        IN  have[1] = v[1] /\ have[2] = v[2]

\* s with the effects of a written over it, last write wins
Merged(s, eff) == Spread(s, eff)

RECURSIVE After(_, _, _)
\* the state after the first k actions of acts, applied in order from s
After(s, acts, k) ==
    IF k = 0 THEN s
    ELSE CHOOSE next \in {Merged(prev, actions[acts[k]].effects) :
                             prev \in {After(s, acts, k - 1)}} : TRUE

\* each action of acts is applicable in the state it is applied to
Executable(s, acts) ==
    \A k \in 1..Len(acts) :
        \A before \in {After(s, acts, k - 1)} :
            Applicable(actions[acts[k]], before)

\* every condition of g holds in s
Satisfies(s, g) ==
    \A i \in 1..Len(g.conditions) :
        LET k == g.conditions[i][1]
            v == g.conditions[i][2]
            have == IF \E j \in 1..Len(s) : s[j][1] = k
                    THEN s[CHOOSE j \in 1..Len(s) : s[j][1] = k][2]
                    ELSE Undefined
        IN  IF v[1] = "function" THEN EvalFn(v[2], s)
            ELSE have[1] = v[1] /\ have[2] = v[2]

\* g holds in the state acts leads to from s
LeadsToGoal(s, acts, g) ==
    \A final \in {After(s, acts, Len(acts))} : Satisfies(final, g)

\* the same keys with the same values, whatever the insertion order
SameState(a, b) ==
    /\ \A i \in 1..Len(a) : \E j \in 1..Len(b) : a[i] = b[j]
    /\ \A j \in 1..Len(b) : \E i \in 1..Len(a) : a[i] = b[j]

OneStep(S) ==
    {Merged(s, actions[i].effects) : <<s, i>> \in
        {<<s, i>> \in S \X (1..Len(actions)) : Applicable(actions[i], s)}}

RECURSIVE ReachWithin(_, _, _)
\* the states some sequence of at most k applicable actions leads to from
\* a state of frontier, seen being those already found
ReachWithin(frontier, seen, k) ==
    IF k = 0 \/ frontier = {} THEN seen
    ELSE CHOOSE all \in {ReachWithin(next, seen \cup next, k - 1) :
                            next \in {OneStep(frontier) \ seen}} : TRUE

\* some sequence of at most maxPlanLength applicable registered actions leads
\* from the state planning began with to a state satisfying the goal
GoalReachable ==
    \E s \in ReachWithin({startState}, {startState}, maxPlanLength) :
        Satisfies(s, TheGoal)

PlanReturned == plan.goal # "none"
PlanningOver == pc \notin {"idle", "planning"}

(***************************************************************************)
(* C1: every plan planActions returns is executable and correct: from the  *)
(* state planning began with, each action's preconditions hold in the      *)
(* state it is applied to, and the final state satisfies every goal        *)
(* condition.                                                              *)
(***************************************************************************)
C1_PlanExecutableAndCorrect ==
    PlanReturned =>
        /\ Executable(startState, plan.actions)
        /\ LeadsToGoal(startState, plan.actions, TheGoal)

C1_Witness ==
    /\ PlanReturned
    /\ Len(plan.actions) >= 3
    /\ \E k \in 1..Len(plan.actions) :
           actions[plan.actions[k]].preconditions # <<>>

(***************************************************************************)
(* C2: whenever some sequence of at most maxPlanLength applicable actions  *)
(* leads to a goal-satisfying state, planActions returns a plan and does   *)
(* not fail with 'No valid plan found'.                                    *)
(***************************************************************************)
C2_ReachableGoalIsPlanned ==
    (pc = "rejected" /\ error = "NoPlanFound") => ~GoalReachable

(***************************************************************************)
(* C3: when no sequence of at most maxPlanLength applicable actions leads  *)
(* to a goal-satisfying state, planActions returns no plan, and once it is *)
(* over it has failed with the no-plan-found error.                        *)
(***************************************************************************)
C3_UnreachableGoalFails ==
    (GoalFound(task.goal) /\ ~GoalReachable) =>
        /\ ~PlanReturned
        /\ PlanningOver => (pc = "rejected" /\ error = "NoPlanFound")

C3_Witness ==
    /\ pc = "rejected"
    /\ error = "NoPlanFound"
    /\ ~GoalReachable
    /\ Len(expanded) >= maxPlanLength

(***************************************************************************)
(* C4: planning always terminates, cycles among the states included: the   *)
(* search loop eventually returns a plan or fails, and no state is         *)
(* expanded twice.                                                         *)
(***************************************************************************)
ExpandedOnce ==
    \A i, j \in 1..Len(expanded) :
        SameState(expanded[i], expanded[j]) => i = j

C4_PlanningTerminates == <>PlanningOver /\ []ExpandedOnce

\* a cycle was met: a node whose state was already closed has been skipped
C4_Witness ==
    /\ PlanningOver
    /\ GoalFound(task.goal)
    /\ \E i \in 1..Len(expanded) :
           \E a \in 1..Len(actions) :
               /\ Applicable(actions[a], expanded[i])
               /\ \E j \in 1..i :
                      SameState(Merged(expanded[i], actions[a].effects),
                                expanded[j])

(***************************************************************************)
(* C5: if more than maxPlanningTime has passed before a goal-satisfying    *)
(* node is popped, planning fails with a planning-timeout error and        *)
(* expands nothing after the deadline.                                     *)
(***************************************************************************)
C5_TimeoutAbandonsSearch ==
    [][(pc = "planning" /\ elapsed' > maxPlanningTime) =>
          (pc' = "rejected" /\ error' = "PlanningTimeout"
           /\ expanded' = expanded)]_vars

(***************************************************************************)
(* C6: no returned plan and no open-set node carries more than             *)
(* maxPlanLength actions.                                                  *)
(***************************************************************************)
C6_PlanLengthBounded ==
    /\ Len(plan.actions) <= maxPlanLength
    /\ \A i \in 1..Len(openList) :
           Len(openList[i].actions) <= maxPlanLength

C6_Witness ==
    /\ PlanReturned
    /\ Len(plan.actions) = maxPlanLength

(***************************************************************************)
(* C7: when every action of the plan succeeds, execute emits task:started, *)
(* then for each plan action in plan order action:started, state:updated   *)
(* and action:completed, then task:completed, and nothing else.            *)
(***************************************************************************)
ExpectedEvents(n) ==
    [p \in 1..(3 * n + 2) |->
        IF p = 1 THEN Event("task:started", 0)
        ELSE IF p = 3 * n + 2 THEN Event("task:completed", 0)
        ELSE Event(<<"action:started", "state:updated",
                     "action:completed">>[((p - 2) % 3) + 1],
                   ((p - 2) \div 3) + 1)]

ActionFailed ==
    /\ pc = "rejected"
    /\ error \in {"ActionFailed", "ActionTimedOut"}

AbortedAtFailure ==
    /\ Len(events) >= 2
    /\ events[Len(events)] = Event("task:failed", 0)
    /\ events[Len(events) - 1] = Event("action:started", index)
    /\ \A p \in 1..Len(events) :
           /\ events[p].type # "task:completed"
           /\ events[p].type = "task:failed" => p = Len(events)
           /\ events[p].step <= index
    /\ invoked = [k \in 1..index |-> k]

C10_SuccessState ==
    pc = "resolved" =>
        /\ \A final \in {After(startState, plan.actions, Len(plan.actions))} :
               SameState(worldState, final)
        /\ Satisfies(worldState, TheGoal)

\* the two-action scenario, one behaviour having reported a state fragment
C10_Witness ==
    /\ pc = "resolved"
    /\ actions = <<MakeOutline, WriteDraft>>
    /\ startState = << <<"draftComplete", False>>, <<"outlineReady", False>> >>
    /\ SameState(worldState,
                 << <<"draftComplete", True>>, <<"outlineReady", True>> >>)
    /\ TypeOf(outcome.data) = "object"
    /\ Truthy(outcome.data[2].newState)


(***************************************************************************)
(* The executor and what the behaviours return.                            *)
(***************************************************************************)
\* the ActionResult the behaviour of the last settled action resolved with
Returned == outcome.data

ReturnedFragment ==
    /\ TypeOf(Returned) = "object"
    /\ Truthy(Returned[2].newState)

\* C11: when the behaviour of a successful action returns a result carrying
\* a new-state fragment, execute merges that fragment into the world state;
\* the static effects of the action are merged only when no fragment was
\* returned.
C11_ReturnedFragmentMerged ==
    [][(pc = "awaiting" /\ pc' = "executing")
         => \A returned \in {outcome'.data} :
              IF TypeOf(returned) = "object" /\ Truthy(returned[2].newState)
              THEN worldState'
                     = updateWorldState(worldState, returned[2].newState[2])
              ELSE worldState'
                     = updateWorldState(worldState, CurrentAction.effects)]_vars

PlanningFailed ==
    /\ pc = "rejected"
    /\ error \in {"GoalNotFound", "NoPlanFound"}

\* C12: when the goal is not registered or planning fails, execute rejects
\* after emitting task:started and then task:failed and nothing else: no
\* behaviour was invoked, no action:started or state:updated was emitted and
\* the world state is the one the task started with.
C12_PlanningFailureTouchesNothing ==
    PlanningFailed =>
        /\ events = <<Event("task:started", 0), Event("task:failed", 0)>>
        /\ invoked = <<>>
        /\ worldState = startState

C12_Witness ==
    /\ PlanningFailed
    /\ error = "NoPlanFound"
    /\ Len(expanded) > 1

\* C14: when every action of the plan succeeded, the result execute returns
\* is the payload of the last executed action, whatever that payload is
\* (falsy and absent payloads included), never the task context or the
\* payload of an earlier action.
C14_ResultIsLastPayload ==
    pc = "resolved" => result = Returned


TaskOver == pc \in {"resolved", "rejected"}

\* the result executeAction has to give for the outcome it reports
FailureReported ==
    /\ outcome.error = "ActionTimedOut" =>
         /\ ~outcome.success
         /\ outcome.duration = IF CurrentAction.timeout > 0
                               THEN CurrentAction.timeout
                               ELSE 30000
    /\ outcome.error = "ActionFailed" => ~outcome.success
    /\ ~outcome.success /\ outcome.error # "none" =>
         /\ pc = "rejected"
         /\ events[Len(events)] = Event("task:failed", 0)
         /\ error = outcome.error

\* C13: a behaviour that has not completed when its timeout (the declared
\* one, 30 seconds when none is declared) elapses makes executeAction return
\* a failure result, so a task whose behaviours never complete still ends,
\* with task:failed; a behaviour that throws or rejects gives a failure
\* result too.
C13_TimeoutEndsTheTask ==
    /\ <>TaskOver
    /\ []FailureReported

C13_Witness ==
    /\ pc = "rejected"
    /\ outcome.error = "ActionTimedOut"
    /\ outcome.duration = 30000
    /\ Len(invoked) > 1


(***************************************************************************)
(* generateText: providers, retries and the cache.                         *)
(***************************************************************************)
\* the providers a call may use, in the order it has to use them
Candidates ==
    IF request.provider # "undefined" THEN <<request.provider>>
    ELSE fallbackOrder

CallMade == llmPc \in {"trying", "returned", "failed"}

\* the call returned what a provider answered
FromProvider == llmPc = "returned" /\ visited # <<>>

\* the loop went through a prefix of the candidates, one after the other
VisitedInOrder ==
    /\ Len(visited) <= Len(Candidates)
    /\ \A i \in 1..Len(visited) : visited[i].provider = Candidates[i]

\* C15: generateText tries the candidate providers strictly in list order and
\* returns the response of the first one that succeeds: every provider
\* before it was tried and failed, no provider after it was invoked.
C15_FirstSuccessInOrder ==
    /\ CallMade => VisitedInOrder
    /\ FromProvider =>
         /\ visited[Len(visited)].how = "ok"
         /\ response.provider = Candidates[Len(visited)]
         /\ \A i \in 1..(Len(visited) - 1) : visited[i].how # "ok"

C15_Witness ==
    /\ FromProvider
    /\ Len(visited) = 2
    /\ visited[1].attempts = 1 + retries

\* the providers an AIServiceError names
ProvidersCarried(err) ==
    IF err.provider = "undefined" THEN <<>> ELSE <<err.provider>>

\* C16: when every candidate provider failed, the error generateText throws
\* carries the error of the last provider and the list of all the providers
\* that were attempted.
C16_ErrorCarriesAttemptedProviders ==
    llmPc = "failed" =>
        /\ ProvidersCarried(thrown) = Candidates
        /\ visited # <<>> =>
             thrown.cause = [kind |-> visited[Len(visited)].how,
                             provider |-> visited[Len(visited)].provider]

Exhausted(visit) == visit.attempts = 1 + retries

NoModel(visit) == visit.how = "unavailable" /\ visit.attempts = 0

WithinBudget ==
    /\ attempt <= 1 + retries
    /\ \A i \in 1..Len(visited) : visited[i].attempts <= 1 + retries

\* C17 as stated: each provider's remote call is attempted at most 1 + 3
\* times; the loop leaves a provider that failed only when its budget is
\* used up, and the call fails only when every candidate's budget is used up.
C17_NextProviderOnlyAfterBudget ==
    CallMade =>
        /\ WithinBudget
        /\ \A i \in 1..Len(visited) :
             visited[i].how # "ok" => Exhausted(visited[i])
        /\ llmPc = "failed" => Len(visited) = Len(Candidates)

\* C17: each provider's remote call is attempted at most 1 + 3 times; the
\* loop leaves a provider that failed only when its budget is used up or the
\* provider has no model (then without any remote call), and the call fails
\* only when it is done with every candidate in one of these two ways.
C17_NextProviderOnlyAfterBudgetOrNoModel ==
    CallMade =>
        /\ WithinBudget
        /\ \A i \in 1..Len(visited) :
             visited[i].how # "ok" =>
                 Exhausted(visited[i]) \/ NoModel(visited[i])
        /\ llmPc = "failed" => Len(visited) = Len(Candidates)

C17_Witness ==
    /\ llmPc = "failed"
    /\ Len(visited) = 2
    /\ NoModel(visited[1])
    /\ Exhausted(visited[2])

\* C18: a remote call that raises a permanent error is not called again: the
\* loop goes on to the next provider at once.
C18_PermanentErrorNotRetried ==
    [][(lastAttempt' # lastAttempt /\ lastAttempt'.kind = "permanent")
         => cursor' = cursor + 1]_vars

\* the key of the call in flight or just over
RequestKey == getCacheKey("text", request.prompt, request)

CachingEnabled == request.useCache # "false"

\* C19: when caching is enabled and the cache holds a live entry under the
\* key of the request, generateText returns the stored response, invokes no
\* provider and leaves the cache as it was.
C19_HitReturnsStored ==
    (CallMade /\ CachingEnabled /\ CacheHas(cacheBefore, RequestKey, now)) =>
        /\ llmPc = "returned"
        /\ response = CacheGet(cacheBefore, RequestKey, now)
        /\ visited = <<>>
        /\ attempt = 0
        /\ cache = cacheBefore

C19_Witness ==
    /\ llmPc = "returned"
    /\ CachingEnabled
    /\ CacheHas(cacheBefore, RequestKey, now)
    /\ response.provider \in AIProviders

\* the call stored nothing: every entry was there when the call was made
NothingWritten ==
    \A i \in 1..Len(cache) : \E j \in 1..Len(cacheBefore) :
        cache[i] = cacheBefore[j]

Keys(obj) == {obj[i][1] : i \in 1..Len(obj)}

\* the states planActions holds in its open list, and the live one
PlannerStates == {openList[i].state : i \in 1..Len(openList)} \cup {worldState}

\* new is old with the keys of eff, and only these, set to what eff gives
Overwritten(old, eff, new) ==
    /\ Keys(new) = Keys(old) \cup Keys(eff)
    /\ \A k \in Keys(new) :
         Get(new, k) = IF k \in Keys(eff) THEN Get(eff, k) ELSE Get(old, k)

PlanningLeftState ==
    \/ pc \in {"planning", "planned"}
    \/ pc = "rejected" /\ error = "NoPlanFound"

\* C27: applyEffects gives a state that is the prior one with exactly the
\* effect keys overwritten (last write wins, the other keys unchanged), for
\* every state planActions holds and every registered action; and while
\* planActions runs and when it has returned a plan or failed, the live
\* world state is the one execute was entered with.
C27_EffectsMergedStateUntouched ==
    /\ pc = "planning" =>
         \A s \in PlannerStates : \A i \in 1..Len(actions) :
             \A merged \in {applyEffects(s, actions[i].effects)} :
                 Overwritten(s, actions[i].effects, merged)
    /\ PlanningLeftState => worldState = startState

C27_Witness ==
    /\ pc = "planned"
    /\ Len(plan.actions) = 2
    /\ \E i \in 1..Len(actions) :
         Keys(actions[i].effects) \cap Keys(startState) # {}
    /\ worldState = startState

\* C28: merging an effect set that maps a key to undefined keeps the value
\* the key had: for every state planActions holds and every registered
\* action it can apply there, a key the state has and the effects map to
\* undefined has its previous value in the merged state.
C28_UndefinedNeverOverwrites ==
    pc = "planning" =>
        \A s \in PlannerStates : \A i \in 1..Len(actions) :
            preconditionsMet(actions[i], s) =>
                \A merged \in {applyEffects(s, actions[i].effects)} :
                    \A k \in Keys(s) \cap Keys(actions[i].effects) :
                        Get(actions[i].effects, k) = Undefined
                            => Get(merged, k) = Get(s, k)

\* the scenario of the specification: MakeOutline and WriteDraft, registered
\* in either order, nothing done yet, the goal a complete draft
DraftScenario ==
    /\ startState = << <<"draftComplete", False>>, <<"outlineReady", False>> >>
    /\ goals = <<Goal("draft", << <<"draftComplete", True>> >>)>>
    /\ task.goal = "draft"
    /\ Len(actions) = 2
    /\ {actions[1], actions[2]} = {MakeOutline, WriteDraft}

PlanNames == [k \in 1..Len(plan.actions) |-> actions[plan.actions[k]].name]

\* C29: in the scenario with MakeOutline (cost 1) and WriteDraft (cost 2),
\* planActions returns the plan [MakeOutline, WriteDraft] with
\* estimatedCost 3.
C29_DraftScenarioPlan ==
    (DraftScenario /\ PlanningOver) =>
        /\ PlanReturned
        /\ PlanNames = <<"MakeOutline", "WriteDraft">>
        /\ plan.estimatedCost = 3

C29_Witness ==
    /\ DraftScenario
    /\ pc = "planned"
    /\ actions[1] = WriteDraft

RECURSIVE CostOfFirst(_)
\* the costs of the first k actions of the plan, added up
CostOfFirst(k) ==
    IF k = 0 THEN 0
    ELSE actions[plan.actions[k]].cost + CostOfFirst(k - 1)

RECURSIVE DurationOfFirst(_)
\* the timeouts of the first k actions of the plan, 1000 for an action
\* that declares none, added up
DurationOfFirst(k) ==
    IF k = 0 THEN 0
    ELSE (IF actions[plan.actions[k]].timeout > 0
          THEN actions[plan.actions[k]].timeout
          ELSE 1000) + DurationOfFirst(k - 1)

\* C30: the estimatedCost of a returned plan is the sum of the costs of its
\* actions and its estimatedDuration is the sum of their timeouts, with the
\* default for an action that declares none.
C30_PlanEstimates ==
    PlanReturned =>
        /\ plan.estimatedCost = CostOfFirst(Len(plan.actions))
        /\ plan.estimatedDuration = DurationOfFirst(Len(plan.actions))

C30_Witness ==
    /\ PlanReturned
    /\ Len(plan.actions) = 2
    /\ plan.estimatedCost = 3
    /\ plan.estimatedDuration = 3000

(***************************************************************************)
(* generateObject.                                                         *)
(***************************************************************************)
\* the one provider a generateObject call may use
OnlyCandidate ==
    IF request.provider # "undefined" THEN request.provider
    ELSE IF fallbackOrder = <<>> THEN "undefined" ELSE fallbackOrder[1]

ObjectCallMade == llmPc \in {"object", "returned", "failed"}

\* C21: generateObject makes one attempt against one provider, the one the
\* caller names, else the first of the fallback order: no other provider is
\* invoked and the call is made once; a failing call or validation throws
\* OBJECT_GENERATION_FAILED, a provider without a model throws
\* MODEL_UNAVAILABLE and no remote call is made.
C21_ObjectSingleAttempt ==
    ObjectCallMade =>
        /\ Len(visited) <= 1
        /\ \A i \in 1..Len(visited) :
             visited[i].provider = OnlyCandidate /\ visited[i].attempts = 1
        /\ llmPc = "object" => HasModel(OnlyCandidate)
        /\ llmPc = "failed" =>
             /\ thrown.provider = OnlyCandidate
             /\ IF HasModel(OnlyCandidate)
                THEN /\ thrown.code = "OBJECT_GENERATION_FAILED"
                     /\ Len(visited) = 1
                     /\ visited[1].how \in {"call", "validation"}
                ELSE /\ thrown.code = "MODEL_UNAVAILABLE"
                     /\ visited = <<>>

C21_Witness ==
    /\ llmPc = "failed"
    /\ thrown.code = "OBJECT_GENERATION_FAILED"
    /\ visited[1].how = "validation"
    /\ request.provider = "undefined"
    /\ Len(fallbackOrder) = 2

\* C22: the key of a generateObject call includes the identity of the
\* schema, so a call answered from the cache gets an object of the schema
\* it asked for, never the object cached for another schema.
C22_CachedObjectHasTheSchema ==
    (llmPc = "returned" /\ visited = <<>>) =>
        response.content[1] = request.schema

(***************************************************************************)
(* streamText.                                                             *)
(***************************************************************************)
\* the positions of the chunks with done = true
DoneMarks == {i \in 1..Len(stream.yielded) : stream.yielded[i].done}

\* C23: a streamText sequence consumed to its end is zero or more chunks
\* with done = false and then exactly one chunk with done = true that
\* carries the total usage, and nothing after it; when the provider stream
\* fails, no chunk with done = true has been yielded and the sequence ends
\* with STREAM_FAILED.
C23_StreamEndsWithOneMarker ==
    /\ DoneMarks \subseteq {Len(stream.yielded)}
    /\ \A i \in DoneMarks : stream.pc \in {"final", "done"}
    /\ stream.pc = "done" =>
         /\ DoneMarks = {Len(stream.yielded)}
         /\ stream.yielded[Len(stream.yielded)].usage
              = <<Len(stream.yielded) - 1>>
         /\ stream.thrown = "none"
    /\ stream.pc = "thrown" =>
         /\ DoneMarks = {}
         /\ IF HasModel(stream.provider)
            THEN stream.thrown = "STREAM_FAILED"
            ELSE stream.thrown = "MODEL_UNAVAILABLE" /\ stream.yielded = <<>>

C23_Witness ==
    /\ stream.pc = "done"
    /\ Len(stream.yielded) = MaxChunks + 1


\* the providers healthCheck has an entry for
Reported == {health.results[i].provider : i \in 1..Len(health.results)}

\* the entry says available exactly when the request went to that provider
\* alone and its last attempt succeeded
ProbedItself(entry) ==
    /\ \A i \in 1..Len(entry.visited) :
        entry.visited[i].provider = entry.provider
    /\ entry.available <=>
        /\ entry.visited # <<>>
        /\ entry.visited[Len(entry.visited)].how = "ok"

\* C24: healthCheck never throws and returns an entry for every configured
\* provider; an entry says available exactly when a request sent to that
\* provider alone succeeded, and the cache is neither read nor written.
C24_HealthCoversProviders ==
    /\ health.pc = "awaiting" => cacheKey = NoKey
    /\ health.pc # "off" => cache = cacheBefore \/ calls = 0
    /\ \A i \in 1..Len(health.results) : ProbedItself(health.results[i])
    /\ health.pc = "returned" => providers \subseteq Reported


\* a get
ReadStep == cacheOp'.op = "get" /\ now' = now

\* a get of the key that the call before it has set
GetAfterSet == ReadStep /\ cacheOp.op = "set" /\ cacheOp.key = cacheOp'.key

\* the entries of the cache under the key of the get
EntriesOfKey(entries) ==
    {i \in 1..Len(entries) : entries[i].key = cacheOp'.key}

\* C25: a get of k right after set(k, v) returns v when the TTL has not
\* elapsed since the set; at or after the expiry it returns a miss and the
\* entry is gone; no get returns an entry as old as its TTL, and none
\* leaves one behind.
C25_GetWithinTtl ==
    /\ [][GetAfterSet =>
            IF now < cacheOp.at + CacheTtl
            THEN cacheOp'.value = cacheOp.value
            ELSE cacheOp'.value = Miss /\ EntriesOfKey(cache') = {}]_vars
    /\ [][ReadStep =>
            /\ cacheOp'.value = Miss => EntriesOfKey(cache') = {}
            /\ cacheOp'.value # Miss =>
                \E i \in EntriesOfKey(cache) :
                    /\ cache[i].value = cacheOp'.value
                    /\ now < cache[i].expires
                    /\ cache[i].expires <= now + CacheTtl
            /\ \A i \in EntriesOfKey(cache') : now < cache'[i].expires]_vars

C25_Witness ==
    /\ cacheOp.op = "get"
    /\ cacheOp.result = "expired"
    /\ cacheOp.value = Miss
    /\ \A i \in 1..Len(cache) : cache[i].key # cacheOp.key

\* a set of a key the full cache does not hold
NewKeyIntoFull ==
    /\ cacheOp'.op = "set"
    /\ now' = now
    /\ Len(cache) >= CacheMaxSize
    /\ \A i \in 1..Len(cache) : cache[i].key # cacheOp'.key

\* C26: the cache never holds more entries than its capacity; a set of a new
\* key into a full cache drops exactly the earliest-inserted entry, and a
\* get changes nothing of the order the entries were inserted in.
C26_EvictsEarliestInserted ==
    /\ [](Len(cache) <= CacheMaxSize)
    /\ [][NewKeyIntoFull =>
            /\ Len(cache') = CacheMaxSize
            /\ \A i \in 1..(Len(cache) - 1) : cache'[i] = cache[i + 1]
            /\ cache'[Len(cache')].key = cacheOp'.key
            /\ cache'[Len(cache')].value = cacheOp'.value]_vars
    /\ [][ReadStep =>
            cache' = SelectSeq(cache, LAMBDA e :
                        e.key # cacheOp'.key \/ now < e.expires)]_vars

C26_Witness ==
    /\ cacheOp.op = "set"
    /\ cacheOp.result = "evicted"
    /\ Len(cache) = CacheMaxSize

(***************************************************************************)
(* The true remaining cost, by relaxation over the states actions lead to. *)
(***************************************************************************)
\* the states with their costs one applicable action leads to from reached
StepCosts(reached) ==
    {<<Merged(p[1], actions[i].effects), p[2] + actions[i].cost>> :
        <<p, i>> \in {<<p, i>> \in reached \X (1..Len(actions)) :
                        Applicable(actions[i], p[1])}}

\* the pairs of found that are cheaper than everything best holds for
\* their state
Cheaper(found, best) ==
    {p \in found : \A q \in best \cup found : q[1] = p[1] => q[2] >= p[2]}
        \ best

RECURSIVE CostsFrom(_, _)
\* the cheapest cost of each state some applicable sequence leads to,
\* frontier being the pairs improved last
CostsFrom(frontier, best) ==
    IF frontier = {} THEN best
    ELSE CHOOSE all \in
            {CostsFrom(better,
                       {q \in best : \A p \in better : p[1] # q[1]}
                           \cup better) :
             better \in {Cheaper(StepCosts(frontier), best)}} : TRUE

\* the states some applicable action sequence leads to from s, each with
\* its cheapest cost
ReachedFrom(s) == CostsFrom({<<s, 0>>}, {<<s, 0>>})

\* the costs, among reached, of the states satisfying g
GoalCosts(reached, g) == {p[2] : p \in {q \in reached : Satisfies(q[1], g)}}

\* the conditions of g that hold in one of s, t and not in the other
Flipped(s, t, g) ==
    {i \in 1..Len(g.conditions) :
        LET only == Goal(g.name, <<g.conditions[i]>>)
        IN  Satisfies(s, only) # Satisfies(t, only)}

\* the documented assumption on the states of reached: every action costs
\* at least 1 and changes at most one condition of g where it applies
SingleFlip(reached, g) ==
    /\ \A i \in 1..Len(actions) : actions[i].cost >= 1
    /\ \A p \in reached :
        \A i \in 1..Len(actions) :
            Applicable(actions[i], p[1]) =>
                Cardinality(Flipped(p[1], Merged(p[1], actions[i].effects),
                                    g)) <= 1

\* the nodes calculateHeuristic was last called for: the seed, or those the
\* latest expansion pushed
Estimated ==
    {openList[i] : i \in {j \in 1..Len(openList) :
                            openList[j].born[1] = Len(expanded)}}

\* C31: under the documented assumption the heuristic of a state never
\* exceeds the cost of any applicable action sequence leading from it to a
\* goal-satisfying state, and it is 0 exactly when the goal is satisfied.
C31_HeuristicAdmissible ==
    \A node \in Estimated :
        /\ node.heuristic = calculateHeuristic(node.state, TheGoal)
        /\ node.heuristic = 0 <=> Satisfies(node.state, TheGoal)
        /\ \A reached \in {ReachedFrom(node.state)} :
            SingleFlip(reached, TheGoal) =>
                \A c \in GoalCosts(reached, TheGoal) : node.heuristic <= c

C31_Witness ==
    \E node \in Estimated :
        /\ node.heuristic >= 2
        /\ \A reached \in {ReachedFrom(node.state)} :
            /\ SingleFlip(reached, TheGoal)
            /\ GoalCosts(reached, TheGoal) # {}

RECURSIVE CostsWithin(_, _, _)
\* the cheapest cost of each state some applicable sequence of at most k
\* more actions leads to, frontier being the pairs improved last
CostsWithin(frontier, best, k) ==
    IF k = 0 \/ frontier = {} THEN best
    ELSE CHOOSE all \in
            {CostsWithin(better,
                         {q \in best : \A p \in better : p[1] # q[1]}
                             \cup better,
                         k - 1) :
             better \in {Cheaper(StepCosts(frontier), best)}} : TRUE

\* the costs of the valid sequences of at most maxPlanLength actions that
\* lead from the state planning began with to a goal-satisfying state: for
\* each such state the cheapest
PlanCosts ==
    {p[2] : p \in {q \in CostsWithin({<<startState, 0>>},
                                     {<<startState, 0>>}, maxPlanLength) :
                      Satisfies(q[1], TheGoal)}}

\* the total cost of the actions of the returned plan
PlanCost == CostOfFirst(Len(plan.actions))

\* C32: under the documented assumption the returned plan has minimal total
\* cost among the valid action sequences of at most maxPlanLength actions
\* that reach a goal-satisfying state from the initial state.
C32_PlanIsCheapest ==
    (PlanReturned /\ SingleFlip(ReachedFrom(startState), TheGoal)) =>
        \A c \in PlanCosts : PlanCost <= c

\* a step of the search loop: the open list loses the node it pops
PopStep == pc = "planning" /\ openList # <<>> /\ openList' # openList

\* the nodes of the open list that the step removes
Popped ==
    {i \in 1..Len(openList) :
        \A j \in 1..Len(openList') : openList'[j] # openList[i]}

\* node a was inserted before node b
BornBefore(a, b) ==
    \/ a.born[1] < b.born[1]
    \/ a.born[1] = b.born[1] /\ a.born[2] < b.born[2]

\* C33: every step of the search loop pops exactly one node; it has minimal
\* cost + heuristic among the nodes of the open list and, among those of
\* equal cost + heuristic, it is the one inserted earliest.
C33_StablePriorityQueue ==
    [][PopStep =>
        /\ Cardinality(Popped) = 1
        /\ \A i \in Popped : \A j \in 1..Len(openList) :
            /\ F(openList[i]) <= F(openList[j])
            /\ (j # i /\ F(openList[i]) = F(openList[j])) =>
                    BornBefore(openList[i], openList[j])]_vars

\* a node was popped ahead of a later one of equal cost + heuristic
C33_Witness ==
    /\ pc = "planning"
    /\ expanded # <<>>
    /\ \E i, j \in 1..Len(openList) :
        /\ i # j
        /\ F(openList[i]) = F(openList[j])
        /\ \A k \in 1..Len(openList) : F(openList[i]) <= F(openList[k])

(***************************************************************************)
(* PerformanceMonitor (packages/core/src/utils/performance.ts): the        *)
(* recorder of metrics, the operations the performanceMonitor decorator    *)
(* wraps, and the periodic cleanup.  Time is counted in ticks of the clock *)
(* Date.now() reads; the capacity and the age threshold are scaled down to *)
(* a few metrics and a few ticks.                                          *)
(***************************************************************************)
MetricsCapacity == 3
AgeLimit == 1
MaxInFlight == 2

\* private readonly maxMetrics = 1000
maxMetrics == MetricsCapacity

\* const maxAge = 24 * 60 * 60 * 1000
maxAge == AgeLimit

OperationNames == {"agent_execution"}

PerformanceMetric(name, duration, timestamp) ==
    [name |-> name, duration |-> duration, timestamp |-> timestamp]

\* record without its guard: the metric is pushed onto a list of any length
recordUnbounded(list, metric) == Append(list, metric)

\* if (this.metrics.length >= this.maxMetrics) this.metrics.shift();
\* this.metrics.push(metric)
record(list, metric) ==
    Append(IF Len(list) >= maxMetrics THEN Tail(list) ELSE list, metric)

\* the cleanup with the comparison turned strict
keepsYounger(list, t) ==
    SelectSeq(list, LAMBDA m : t - m.timestamp < maxAge)

\* this.metrics.filter(m => now - m.timestamp <= maxAge)
keeps(list, t) ==
    SelectSeq(list, LAMBDA m : t - m.timestamp <= maxAge)

\* removed: how many metrics the operation took out of the list;
\* shifted: a record has found the list full and dropped a metric
MonitorOp(op, after) ==
    [op |-> op, at |-> now,
     removed |-> Len(metrics) + (IF op = "record" THEN 1 ELSE 0) - Len(after),
     shifted |-> \/ monitorOp.shifted
                 \/ op = "record" /\ Len(metrics) >= maxMetrics]

MonitorFrame == UNCHANGED <<agentVars, parked, routeVars, providers, fallbackOrder, cache,
                            calls, llmPc, request, cacheKey, providersToTry,
                            cursor, attempt, lastError, response, thrown,
                            visited, lastAttempt, cacheBefore, health, stream,
                            cacheOp>>

\* the performanceMonitorInstance is constructed when the module is loaded
MonitorInit ==
    /\ AgentOff
    /\ LLMOff
    /\ AppOff

\* a decorated method is called: const startTime = performance.now()
OperationStart ==
    /\ Len(inflight) < MaxInFlight
    /\ \E name \in OperationNames :
        inflight' = Append(inflight, [name |-> name, startTime |-> now])
    /\ UNCHANGED <<metrics, monitorOp, now>>
    /\ MonitorFrame

\* a decorated method settles, in any order among those in flight:
\* performanceMonitorInstance.record(name, duration, ...)
OperationEnd ==
    /\ \E i \in 1..Len(inflight) :
        /\ metrics' = record(metrics,
                PerformanceMetric(inflight[i].name, now - inflight[i].startTime,
                                  now))
        /\ inflight' = [j \in 1..(Len(inflight) - 1) |->
                            IF j < i THEN inflight[j] ELSE inflight[j + 1]]
    /\ monitorOp' = MonitorOp("record", metrics')
    /\ UNCHANGED now
    /\ MonitorFrame

\* the callback of setupCleanup's setInterval
Cleanup ==
    /\ monitorOp.op # "cleanup" \/ monitorOp.at # now
    /\ metrics' = keeps(metrics, now)
    /\ monitorOp' = MonitorOp("cleanup", metrics')
    /\ UNCHANGED <<inflight, now>>
    /\ MonitorFrame

\* clear(): this.metrics = []
Clear ==
    /\ metrics # <<>>
    /\ metrics' = <<>>
    /\ monitorOp' = MonitorOp("clear", metrics')
    /\ UNCHANGED <<inflight, now>>
    /\ MonitorFrame

\* the clock Date.now() reads advances
ClockAdvance ==
    /\ now < MaxTime
    /\ now' = now + 1
    /\ UNCHANGED <<metrics, inflight, monitorOp>>
    /\ MonitorFrame

MonitorNext ==
    \/ OperationStart
    \/ OperationEnd
    \/ Cleanup
    \/ Clear
    \/ ClockAdvance

MonitorSpec == MonitorInit /\ [][MonitorNext]_vars

\* the metrics of a list that are older than the age threshold at time t
Older(list, t) == {i \in 1..Len(list) : t - list[i].timestamp > maxAge}

\* the list without the positions in gone, in order
Dropping(list, gone) ==
    LET left == {i \in 1..Len(list) : i \notin gone}
        nth(k) == CHOOSE i \in left : Cardinality({j \in left : j < i}) = k - 1
    IN  [k \in 1..Cardinality(left) |-> list[nth(k)]]

\* a step in which an operation ended and its metric was recorded
Recorded == Len(inflight') < Len(inflight)

\* a step in which the periodic cleanup ran
Cleaned == monitorOp' # monitorOp /\ monitorOp'.op = "cleanup"

\* C34: the stored metrics never number more than maxMetrics; a record made
\* when the list is full drops the oldest metric and no other, a record made
\* when it is not full drops none; and the periodic cleanup removes the
\* metrics older than the age threshold and no other.
C34_HistoryBounded ==
    [][/\ Len(metrics) <= maxMetrics
       /\ Len(metrics') <= maxMetrics
       /\ Recorded =>
            /\ metrics' # <<>>
            /\ metrics'[Len(metrics')].timestamp = now
            /\ SubSeq(metrics', 1, Len(metrics') - 1) =
                 IF Len(metrics) = maxMetrics
                 THEN Dropping(metrics, {1})
                 ELSE metrics
       /\ Cleaned => metrics' = Dropping(metrics, Older(metrics, now))]_vars

\* a record was made into a full list, and later a cleanup removed some
\* metrics and kept one exactly as old as the threshold
C34_Witness ==
    /\ monitorOp.shifted
    /\ monitorOp.op = "cleanup"
    /\ monitorOp.at = now
    /\ monitorOp.removed > 0
    /\ \E i \in 1..Len(metrics) : now - metrics[i].timestamp = maxAge

(***************************************************************************)
(* The ActionResult a behaviour resolves with (unnamed/part_002 40-46).    *)
(***************************************************************************)
\* the behaviour awaited in this step resolved with an ActionResult whose
\* success flag is false
ResolvedUnsuccessful ==
    /\ pc = "awaiting"
    /\ pc' # "awaiting"
    /\ TypeOf(outcome'.data) = "object"
    /\ ~outcome'.data[2].success

\* C35: an action whose behaviour resolves with an ActionResult whose
\* success flag is false is a failed action: task:failed is emitted and the
\* call rejects, the action's effects are not merged into the live world
\* state, and the loop does not go on to a later action.
C35_ResolvedFailureAborts ==
    [][ResolvedUnsuccessful =>
         /\ pc' = "rejected"
         /\ events' = Emit(events, "task:failed", 0)
         /\ worldState' = worldState
         /\ index' = index]_vars

(***************************************************************************)
(* Two execute() calls on one agent.  The calls share the agent's fields   *)
(* (worldState, goals, actions); each has its own locals.  JavaScript runs *)
(* a call until its next await, so the other call can run only while this  *)
(* one is suspended at `await this.planActions(goal)` or at                *)
(* `await this.executeAction(...)`, or has settled.  The variables of the  *)
(* agent hold the locals of the call that is running, parked those of the  *)
(* other one.                                                              *)
(***************************************************************************)
Locals ==
    [task |-> task, pc |-> pc, openList |-> openList, closedSet |-> closedSet,
     elapsed |-> elapsed, timeout |-> timeout, plan |-> plan, error |-> error,
     index |-> index, result |-> result, events |-> events,
     startState |-> startState, expanded |-> expanded, invoked |-> invoked,
     outcome |-> outcome]

\* the locals of a call are set to those of record c
Restore(c) ==
    /\ task' = c.task
    /\ pc' = c.pc
    /\ openList' = c.openList
    /\ closedSet' = c.closedSet
    /\ elapsed' = c.elapsed
    /\ timeout' = c.timeout
    /\ plan' = c.plan
    /\ error' = c.error
    /\ index' = c.index
    /\ result' = c.result
    /\ events' = c.events
    /\ startState' = c.startState
    /\ expanded' = c.expanded
    /\ invoked' = c.invoked
    /\ outcome' = c.outcome

\* a call at one of these positions is suspended at an await
Suspended == {"planned", "awaiting"}
Settled == {"resolved", "rejected"}

\* execute(task) is called again while the first call awaits an action
ExecuteAgain ==
    /\ parked = NoCall
    /\ pc = "awaiting"
    /\ parked' = Locals
    /\ Restore([task |-> task, pc |-> "idle", openList |-> <<>>,
                closedSet |-> {}, elapsed |-> 0, timeout |-> "unset",
                plan |-> NoPlan, error |-> "none", index |-> 1,
                result |-> Undefined, events |-> <<>>,
                startState |-> worldState, expanded |-> <<>>,
                invoked |-> <<>>, outcome |-> NoResult])
    /\ UNCHANGED <<llmVars, monitorVars, routeVars, worldState, goals,
                   actions>>

\* the running call is suspended or has settled, and what the other call
\* awaits settles: the other call goes on
Resume ==
    /\ parked # NoCall
    /\ pc \in Suspended \cup Settled
    /\ parked.pc \in Suspended
    /\ parked' = Locals
    /\ Restore(parked)
    /\ UNCHANGED <<llmVars, monitorVars, routeVars, worldState, goals,
                   actions>>

\* the steps of the running call, and the change of the call that runs. The
\* registries are the small ones, whose plans stay below maxPlanLength
OverlapNext ==
    \/ ExecuteGoalNotFound
    \/ ExecutePlan
    \/ PlanReturn
    \/ PlanSkip
    \/ PlanExpand
    \/ PlanNotFound
    \/ ExecuteEmptyPlan
    \/ ActionStart
    \/ ActionSucceeds
    \/ ActionFails
    \/ ActionTimesOut
    \/ TaskCompleted
    \/ ExecuteAgain
    \/ Resume

OverlapInit ==
    /\ Init
    /\ Len(actions) <= MaxActions

OverlapSpec == OverlapInit /\ [][OverlapNext]_vars

\* a step of the running call, not a change of the call that runs
CallStep == parked' = parked

\* C36: when two execute() calls on one agent overlap, every action is still
\* started only when the live world state satisfies its preconditions, and
\* a call that emits task:completed leaves a live world state that satisfies
\* its goal.
C36_OverlapKeepsPreconditions ==
    [][/\ (CallStep /\ pc # "awaiting" /\ pc' = "awaiting")
            => Applicable(actions[plan.actions[index]], worldState)
       /\ (CallStep /\ pc # "resolved" /\ pc' = "resolved")
            => Satisfies(worldState', TheGoal)]_vars

(***************************************************************************)
(* Listeners.  BaseAgent extends EventEmitter: emit calls the listeners of *)
(* the event synchronously, and an exception a listener throws propagates  *)
(* to the statement that called emit.                                      *)
(***************************************************************************)
\* the for loop is over and task:completed is emitted inside the try block;
\* a listener of task:completed throws, the catch block emits task:failed
\* and rethrows
TaskCompletedListenerThrows ==
    /\ pc = "executing"
    /\ index > Len(plan.actions)
    /\ Rejected(Emit(events, "task:completed", 0), "ListenerThrew")
    /\ UNCHANGED <<llmVars, appVars, worldState, goals, actions, task, openList,
                   closedSet, elapsed, timeout, plan, index, result, startState,
                   expanded, invoked, outcome>>

ListenerNext ==
    \/ Next
    \/ TaskCompletedListenerThrows

ListenerSpec == Init /\ [][ListenerNext]_vars

TerminalEvents == {"task:completed", "task:failed"}

\* the positions in the log of the events of one of the given types
Positions(log, types) == {p \in 1..Len(log) : log[p].type \in types}

\* C37: a call emits exactly one terminal event, task:completed or
\* task:failed and never both, after all its other events; it resolves if
\* and only if task:completed was emitted and rejects if and only if
\* task:failed was emitted.
C37_OneTerminalEvent ==
    /\ Cardinality(Positions(events, TerminalEvents)) <= 1
    /\ Positions(events, TerminalEvents) \subseteq {Len(events)}
    /\ pc \in Settled => Positions(events, TerminalEvents) # {}
    /\ pc = "resolved" <=> Positions(events, {"task:completed"}) # {}
    /\ pc = "rejected" <=> Positions(events, {"task:failed"}) # {}

(***************************************************************************)
(* A goal the live world state already satisfies.                          *)
(***************************************************************************)
AlreadySatisfied ==
    /\ GoalFound(task.goal)
    /\ Satisfies(startState, TheGoal)

\* C38: when the live world state already satisfies the goal, planActions
\* returns a plan without actions and execute rejects with the planning
\* error 'No valid action plan found': task:started and task:failed are the
\* only events, no action is invoked and the world state is unchanged.
C38_SatisfiedGoalRejected ==
    AlreadySatisfied =>
        /\ pc \in {"idle", "planning", "planned", "rejected"}
        /\ pc = "planned" => plan.actions = <<>>
        /\ pc = "rejected" =>
            /\ error = "NoValidActionPlan"
            /\ plan.actions = <<>>
            /\ events = <<Event("task:started", 0), Event("task:failed", 0)>>
        /\ invoked = <<>>
        /\ worldState = startState

\* the goal was satisfied from the start although an action that would have
\* changed the state was applicable, and the call has rejected
C38_Witness ==
    /\ AlreadySatisfied
    /\ pc = "rejected"
    /\ plan.goal = task.goal
    /\ \E i \in 1..Len(actions) :
        /\ Applicable(actions[i], startState)
        /\ ~SameState(Merged(startState, actions[i].effects), startState)

(***************************************************************************)
(* Whose response a cache hit returns.                                     *)
(***************************************************************************)
\* the call was answered from the cache
FromCache == llmPc = "returned" /\ visited = <<>>

\* C39: a response generateText returns from the cache was produced by a
\* provider for the prompt, model and provider of the current request: two
\* requests that differ in their prompt text never receive each other's
\* cached response.
C39_HitIsForSameRequest ==
    FromCache =>
        /\ response.content[1] = request.prompt
        /\ request.provider # "undefined" => response.provider = request.provider
        /\ request.model # "undefined" => response.model = request.model

(***************************************************************************)
(* POST /api/generate (apps/web/src/app/api/generate/route.ts): the start  *)
(* callback of the ReadableStream of an accepted request.  One action per  *)
(* stretch of code between two awaits; an awaited call of the persistence  *)
(* service or of the generation service resolves or rejects.  A progress   *)
(* value is a fraction <<numerator, denominator>>, since                   *)
(* 25 + i * (55 / n) need not be whole.                                    *)
(***************************************************************************)
MaxChapters == 3

InputTypes == {"topic", "link", "incomplete_book"}

Whole(n) == <<n, 1>>

\* x <= y for two fractions
AtMost(x, y) == x[1] * y[2] <= y[1] * x[2]

\* 25 + (i * chapterIncrement), with chapterIncrement = 55 / n
ChapterProgress(i, n) == <<25 * n + 55 * i, n>>

ProgressEvent(stage, value) ==
    [type |-> "progress", stage |-> stage, progress |-> value]

TerminalEvent(type) == [type |-> type, stage |-> "none", progress |-> Whole(0)]

\* updateProgress(stage, newProgress): controller.enqueue of a progress event
updateProgress(stage, newProgress) ==
    sent' = Append(sent, ProgressEvent(stage, newProgress))

\* pbService.updateProject(projectId, {status}) resolved
StatusSaved(status) == project' = [project EXCEPT !.status = status]

\* the awaits inside the try block
Awaits == {"enhancing", "enhancePrompt", "planning", "createContentPlan",
           "generating", "generateChapter", "editing", "checkGrammar",
           "completing"}

\* the request passed the rate limit and the validation, and createProject
\* resolved
RouteInit ==
    /\ AgentOff
    /\ LLMOff
    /\ MonitorOff
    /\ parked = NoCall
    /\ routePc = "accepted"
    /\ \E type \in InputTypes :
        project = [status |-> "enhancing_prompt", progress |-> 0,
                   inputType |-> type]
    /\ sent = <<>>
    /\ closed = FALSE
    /\ chapterTotal = 0
    /\ chapterIndex = 0

RouteFrame == UNCHANGED <<agentVars, llmVars, monitorVars, parked>>

\* start(controller): updateProgress('enhancing_prompt', 10) and the call of
\* updateProject
StreamStart ==
    /\ routePc = "accepted"
    /\ updateProgress("enhancing_prompt", Whole(10))
    /\ routePc' = "enhancing"
    /\ UNCHANGED <<project, closed, chapterTotal, chapterIndex>>
    /\ RouteFrame

StatusEnhancing ==
    /\ routePc = "enhancing"
    /\ StatusSaved("enhancing_prompt")
    /\ routePc' = "enhancePrompt"
    /\ UNCHANGED <<sent, closed, chapterTotal, chapterIndex>>
    /\ RouteFrame

\* enhancePrompt resolved and the enhanced prompt was saved
PromptEnhanced ==
    /\ routePc = "enhancePrompt"
    /\ updateProgress("planning_content", Whole(25))
    /\ routePc' = "planning"
    /\ UNCHANGED <<project, closed, chapterTotal, chapterIndex>>
    /\ RouteFrame

StatusPlanning ==
    /\ routePc = "planning"
    /\ StatusSaved("planning_content")
    /\ routePc' = "createContentPlan"
    /\ UNCHANGED <<sent, closed, chapterTotal, chapterIndex>>
    /\ RouteFrame

\* createContentPlan resolved with a plan of n chapters
ContentPlanned ==
    /\ routePc = "createContentPlan"
    /\ \E n \in 0..MaxChapters : chapterTotal' = n
    /\ routePc' = "generating"
    /\ UNCHANGED <<project, sent, closed, chapterIndex>>
    /\ RouteFrame

\* the head of the for loop with i the loop variable, and what follows the
\* loop when it is over
LoopHead(i) ==
    /\ chapterIndex' = i
    /\ IF i < chapterTotal
       THEN /\ updateProgress("generating_chapter", ChapterProgress(i, chapterTotal))
            /\ routePc' = "generateChapter"
       ELSE /\ updateProgress("checking_grammar", Whole(90))
            /\ routePc' = "editing"

StatusGenerating ==
    /\ routePc = "generating"
    /\ StatusSaved("generating_chapters")
    /\ LoopHead(0)
    /\ UNCHANGED <<closed, chapterTotal>>
    /\ RouteFrame

\* generateChapter resolved and createChapter saved the chapter
ChapterSaved ==
    /\ routePc = "generateChapter"
    /\ LoopHead(chapterIndex + 1)
    /\ UNCHANGED <<project, closed, chapterTotal>>
    /\ RouteFrame

StatusEditing ==
    /\ routePc = "editing"
    /\ StatusSaved("editing_content")
    /\ routePc' = "checkGrammar"
    /\ UNCHANGED <<sent, closed, chapterTotal, chapterIndex>>
    /\ RouteFrame

GrammarChecked ==
    /\ routePc = "checkGrammar"
    /\ updateProgress("finalizing", Whole(100))
    /\ routePc' = "completing"
    /\ UNCHANGED <<project, closed, chapterTotal, chapterIndex>>
    /\ RouteFrame

\* updateProject(status: 'completed', progress: 100) resolved: the completed
\* event is enqueued and the finally block closes the stream
StatusCompleted ==
    /\ routePc = "completing"
    /\ project' = [project EXCEPT !.status = "completed", !.progress = 100]
    /\ sent' = Append(sent, TerminalEvent("completed"))
    /\ closed' = TRUE
    /\ routePc' = "done"
    /\ UNCHANGED <<chapterTotal, chapterIndex>>
    /\ RouteFrame

\* an awaited call rejects: the catch block calls
\* updateProject(status: 'failed')
AwaitRejects ==
    /\ routePc \in Awaits
    /\ routePc' = "failing"
    /\ UNCHANGED <<project, sent, closed, chapterTotal, chapterIndex>>
    /\ RouteFrame

\* the catch block after its await: the error event is enqueued and the
\* finally block closes the stream
ErrorSent ==
    /\ sent' = Append(sent, TerminalEvent("error"))
    /\ closed' = TRUE
    /\ routePc' = "done"

StatusFailed ==
    /\ routePc = "failing"
    /\ StatusSaved("failed")
    /\ ErrorSent
    /\ UNCHANGED <<chapterTotal, chapterIndex>>
    /\ RouteFrame

\* updateProject(status: 'failed') rejects too: .catch(console.error)
StatusFailedRejects ==
    /\ routePc = "failing"
    /\ ErrorSent
    /\ UNCHANGED <<project, chapterTotal, chapterIndex>>
    /\ RouteFrame

RouteNext ==
    \/ StreamStart
    \/ StatusEnhancing
    \/ PromptEnhanced
    \/ StatusPlanning
    \/ ContentPlanned
    \/ StatusGenerating
    \/ ChapterSaved
    \/ StatusEditing
    \/ GrammarChecked
    \/ StatusCompleted
    \/ AwaitRejects
    \/ StatusFailed
    \/ StatusFailedRejects

RouteSpec == RouteInit /\ [][RouteNext]_vars

Terminals == Positions(sent, {"completed", "error"})

Progresses == Positions(sent, {"progress"})

\* C40: the stream of an accepted request carries progress events whose
\* values lie between 0 and 100 and never decrease, and ends with exactly one
\* terminal event, completed or error, after which it is closed and nothing
\* more is sent; the project's final status is completed exactly when the
\* terminal event is completed, and failed otherwise.
C40_StreamEndsOnceWithStatus ==
    /\ \A p \in Progresses :
        /\ AtMost(Whole(0), sent[p].progress)
        /\ AtMost(sent[p].progress, Whole(100))
        /\ \A q \in Progresses : p < q => AtMost(sent[p].progress, sent[q].progress)
    /\ Terminals \subseteq {Len(sent)}
    /\ closed <=> Terminals # {}
    /\ closed =>
        /\ routePc = "done"
        /\ project.status = "completed" <=> sent[Len(sent)].type = "completed"
        /\ project.status = "failed" <=> sent[Len(sent)].type = "error"

====
